---------------------------- MODULE Spec2Model ----------------------------
(***************************************************************************)
(* A model of the todoist billing scripts: the keyword classifier and the  *)
(* duration estimator of AntiImperialistsAnalyzer (main.py and             *)
(* anti_imperialists.py), the SQLite persistence of Database.save_task,    *)
(* the Turso upload of TextGenerator.upload_tasks_to_db, the Stripe        *)
(* invoice creation of InvoiceCreator / BillingReportConverter, the        *)
(* label-based hours of TextGenerator.extract_hours_from_labels, the       *)
(* invoice number of create_invoice_from_report, the sync loop of           *)
(* SyncManager.sync_completed_tasks and its scheduling by monitor.py, the  *)
(* billing report written by TextGenerator and read back by                *)
(* BillingReportConverter, the sort of generate_report, the connection of  *)
(* TursoConnection and the two billing generators run by example_pdf.py.   *)
(*                                                                         *)
(* Titles and keywords are strings; `keyword in content_lower` is modelled *)
(* as a substring search over the characters, and str.lower() as a         *)
(* character-by-character mapping.  Hours are fixed-point integers.        *)
(***************************************************************************)
EXTENDS Integers, Sequences, FiniteSets, TLC

VARIABLES
    title,          \* task_content passed to enhance_description / estimate_duration
    labels,         \* labels passed to enhance_description
    cls,            \* the dict returned by enhance_description, or NoResult
    category_arg,   \* category passed to estimate_duration
    est,            \* value returned by estimate_duration (tenths of an hour), or NoResult
    completed_at,   \* first argument of calculate_actual_duration
    item_date,      \* second argument of calculate_actual_duration
    actual,         \* outcome of calculate_actual_duration, or NoResult
    completed_tasks_rows,  \* rows of the completed_tasks table (database.py), in insertion order
    save_calls,     \* the save_task calls made so far, with what each returned
    tasks_rows,     \* rows of the Turso tasks table (PRIMARY KEY id)
    uploads,        \* number of upload_tasks_to_db calls made; the clock of get_billing_date
    stripe_pending, \* Stripe: the customer's pending invoice items (amounts in cents), oldest first
    stripe_invoices,\* Stripe: the customer's invoices, oldest first
    invoice_calls,  \* the invoice-creation calls made so far: arguments, Stripe calls made, returned dict
    task_labels,    \* labels passed to extract_hours_from_labels
    hours,          \* value returned by extract_hours_from_labels (hundredths of an hour), or NoResult
    anti_imperialists_cls, \* the dict returned by enhance_description of anti_imperialists.py, or NoResult
    report_invoice_number,\* report_data["invoice_number"] in create_invoice_from_report
    unix_time,      \* int(time.time()) at the call
    unique_invoice_number, \* the invoice number built for Stripe, or NoResult
    sync_runs,      \* the sync_completed_tasks runs made so far: what each fetched and returned
    report_tasks,   \* the tasks passed to _format_billing_text
    report,         \* the billing report written by _format_billing_text, or NoResult
    parsed_report,  \* the dict returned by parse_billing_report for that report, or NoResult
    completed_items,\* the items get_completed_items returned to generate_report
    completed_analysis, \* what generate_report did: <<>> before the call, else one outcome
    libsql_available,\* LIBSQL_AVAILABLE of turso_db/connection.py
    connection,     \* TursoConnection.connection: "None" or the libsql connection held
    connection_calls, \* the TursoConnection method calls made so far, with what each did
    open_sessions,  \* database sessions opened by a SyncManager and not closed
    monitor_runs,   \* the run_sync calls the monitor has made so far, with how each ended
    json_tasks,     \* data['completed_tasks'] of the JSON file both generators read
    pdf_available,  \* PDF_AVAILABLE of gemini/text_generator.py
    billing_reports \* the generator calls example_pdf.main has made so far, with what each did

classifierVars == <<title, labels, cls, category_arg, est>>
durationVars == <<completed_at, item_date, actual>>
databaseVars == <<completed_tasks_rows, save_calls>>
tursoVars == <<tasks_rows, uploads>>
stripeVars == <<stripe_pending, stripe_invoices, invoice_calls>>
labelVars == <<task_labels, hours>>
antiImperialistsVars == <<anti_imperialists_cls>>
numberVars == <<report_invoice_number, unix_time, unique_invoice_number>>
syncVars == <<sync_runs>>
reportVars == <<report_tasks, report, parsed_report>>
generateVars == <<completed_items, completed_analysis>>
connectionVars == <<libsql_available, connection, connection_calls>>
monitorVars == <<open_sessions, monitor_runs>>
billingVars == <<json_tasks, pdf_available, billing_reports>>
vars == <<classifierVars, durationVars, databaseVars, tursoVars, stripeVars, labelVars, antiImperialistsVars, numberVars, syncVars, reportVars, generateVars, connectionVars, monitorVars, billingVars>>

\* A result not yet computed is <<>>; a computed result r is <<r>>.
NoResult == <<>>
\* Python None, and a Python list, as arguments.
PyNone == [kind |-> "None"]
PyList(items) == [kind |-> "list", items |-> items]

-----------------------------------------------------------------------------
(* Strings.                                                                *)

\* Python `k in s` for two str values.
Contains(s, k) ==
    \E i \in 1..(Len(s) - Len(k) + 1) : SubSeq(s, i, i + Len(k) - 1) = k

UpperAlpha == "ABCDEFGHIJKLMNOPQRSTUVWXYZ"
LowerAlpha == "abcdefghijklmnopqrstuvwxyz"

LowerChar(c) ==
    IF \E i \in 1..Len(UpperAlpha) : SubSeq(UpperAlpha, i, i) = c
    THEN LET i == CHOOSE j \in 1..Len(UpperAlpha) : SubSeq(UpperAlpha, j, j) = c
         IN  SubSeq(LowerAlpha, i, i)
    ELSE c

RECURSIVE LowerFrom(_, _)
LowerFrom(s, i) ==
    IF i > Len(s) THEN "" ELSE LowerChar(SubSeq(s, i, i)) \o LowerFrom(s, i + 1)

\* Python str.lower() on the ASCII titles of the model.
Lower(s) == LowerFrom(s, 1)

\* Python any(keyword in content for keyword in keywords).
AnyIn(keywords, content) ==
    \E j \in 1..Len(keywords) : Contains(content, keywords[j])

-----------------------------------------------------------------------------
(* enhance_description: the keyword tables, in declaration order.          *)

category_keywords_swapped == <<
    [name |-> "Direct Action",
     keywords |-> <<"protest", "rally", "march", "demonstration", "action", "blockade", "occupation", "strike">>],
    [name |-> "Content Creation",
     keywords |-> <<"write", "draft", "edit", "post", "blog", "statement", "article", "flyer">>],
    [name |-> "Meeting/Communication",
     keywords |-> <<"meet", "call", "discussion", "zoom", "conference", "talk", "phone">>],
    [name |-> "Education",
     keywords |-> <<"read", "study", "research", "learn", "book", "article", "theory", "analysis", "teach">>],
    [name |-> "Organizing",
     keywords |-> <<"organize", "plan", "coordinate", "schedule", "logistics", "prepare">>],
    [name |-> "Outreach",
     keywords |-> <<"email", "contact", "reach out", "follow up", "outreach", "connect">>],
    [name |-> "Fundraising",
     keywords |-> <<"fund", "donate", "money", "budget", "fundraiser", "donation">>],
    [name |-> "Digital Work",
     keywords |-> <<"website", "social media", "online", "digital", "internet", "dns", "substack">>]
>>

\* The table with 'website' left out of the Digital Work keywords.
category_keywords_without_website == <<
    [name |-> "Direct Action",
     keywords |-> <<"protest", "rally", "march", "demonstration", "action", "blockade", "occupation", "strike">>],
    [name |-> "Education",
     keywords |-> <<"read", "study", "research", "learn", "book", "article", "theory", "analysis", "teach">>],
    [name |-> "Meeting/Communication",
     keywords |-> <<"meet", "call", "discussion", "zoom", "conference", "talk", "phone">>],
    [name |-> "Content Creation",
     keywords |-> <<"write", "draft", "edit", "post", "blog", "statement", "article", "flyer">>],
    [name |-> "Organizing",
     keywords |-> <<"organize", "plan", "coordinate", "schedule", "logistics", "prepare">>],
    [name |-> "Outreach",
     keywords |-> <<"email", "contact", "reach out", "follow up", "outreach", "connect">>],
    [name |-> "Fundraising",
     keywords |-> <<"fund", "donate", "money", "budget", "fundraiser", "donation">>],
    [name |-> "Digital Work",
     keywords |-> <<"social media", "online", "digital", "internet", "dns", "substack">>]
>>

category_keywords == <<
    [name |-> "Direct Action",
     keywords |-> <<"protest", "rally", "march", "demonstration", "action", "blockade", "occupation", "strike">>],
    [name |-> "Education",
     keywords |-> <<"read", "study", "research", "learn", "book", "article", "theory", "analysis", "teach">>],
    [name |-> "Meeting/Communication",
     keywords |-> <<"meet", "call", "discussion", "zoom", "conference", "talk", "phone">>],
    [name |-> "Content Creation",
     keywords |-> <<"write", "draft", "edit", "post", "blog", "statement", "article", "flyer">>],
    [name |-> "Organizing",
     keywords |-> <<"organize", "plan", "coordinate", "schedule", "logistics", "prepare">>],
    [name |-> "Outreach",
     keywords |-> <<"email", "contact", "reach out", "follow up", "outreach", "connect">>],
    [name |-> "Fundraising",
     keywords |-> <<"fund", "donate", "money", "budget", "fundraiser", "donation">>],
    [name |-> "Digital Work",
     keywords |-> <<"website", "social media", "online", "digital", "internet", "dns", "substack">>]
>>

\* One keyword per entry: the dict maps keyword -> task type.
task_type_map == <<
    [name |-> "Coalition Meeting",       keywords |-> <<"meeting">>],
    [name |-> "Virtual Meeting",         keywords |-> <<"zoom">>],
    [name |-> "Phone Call",              keywords |-> <<"call">>],
    [name |-> "Street Action",           keywords |-> <<"protest">>],
    [name |-> "Mass Mobilization",       keywords |-> <<"rally">>],
    [name |-> "Public Demonstration",    keywords |-> <<"march">>],
    [name |-> "Political Research",      keywords |-> <<"research">>],
    [name |-> "Political Education",     keywords |-> <<"read">>],
    [name |-> "Theory Study",            keywords |-> <<"study">>],
    [name |-> "Content Creation",        keywords |-> <<"write">>],
    [name |-> "Document Preparation",    keywords |-> <<"draft">>],
    [name |-> "Digital Organizing",      keywords |-> <<"social media">>],
    [name |-> "Digital Infrastructure",  keywords |-> <<"website">>],
    [name |-> "Technical Setup",         keywords |-> <<"dns">>],
    [name |-> "Publishing Platform",     keywords |-> <<"substack">>],
    [name |-> "Resource Development",    keywords |-> <<"fundrais">>],
    [name |-> "Community Support",       keywords |-> <<"mutual aid">>],
    [name |-> "Solidarity Work",         keywords |-> <<"solidarity">>],
    [name |-> "Alliance Building",       keywords |-> <<"coalition">>],
    [name |-> "Political Communication", keywords |-> <<"statement">>],
    [name |-> "Digital Outreach",        keywords |-> <<"email">>],
    [name |-> "Community Organizing",    keywords |-> <<"organize">>],
    [name |-> "Strategic Planning",      keywords |-> <<"plan">>]
>>

focus_keywords == <<
    [name |-> "Palestine Solidarity",
     keywords |-> <<"palestine", "gaza", "israel", "bds", "apartheid", "zionism", "occupation">>],
    [name |-> "Anti-War",
     keywords |-> <<"war", "military", "pentagon", "intervention", "nato", "sanctions", "imperialism">>],
    [name |-> "Racial Justice",
     keywords |-> <<"blm", "black lives", "racism", "police", "white supremacy", "racial">>],
    [name |-> "Climate Justice",
     keywords |-> <<"climate", "environment", "pipeline", "fossil", "carbon", "green">>],
    [name |-> "Labor Rights",
     keywords |-> <<"labor", "union", "strike", "worker", "wages", "workplace">>],
    [name |-> "Immigration Justice",
     keywords |-> <<"immigration", "migrant", "refugee", "ice", "border", "deportation">>],
    [name |-> "Housing Justice",
     keywords |-> <<"housing", "tenant", "rent", "eviction", "gentrification", "homeless">>],
    [name |-> "Indigenous Solidarity",
     keywords |-> <<"indigenous", "native", "tribal", "land back", "sovereignty">>],
    [name |-> "Digital Organizing",
     keywords |-> <<"website", "online", "digital", "internet", "social media", "substack">>]
>>

high_priority_words == <<"urgent", "important", "critical", "deadline", "asap">>
medium_priority_words == <<"soon", "this week", "follow up", "check">>

\* for name, keywords in table.items(): if any(...): result = name; break
\* A scan without the break: the last matching entry wins.
RECURSIVE ScanNoBreak(_, _, _, _)
ScanNoBreak(table, i, content, default) ==
    IF i > Len(table) THEN default
    ELSE ScanNoBreak(table, i + 1, content,
                     IF AnyIn(table[i].keywords, content) THEN table[i].name ELSE default)

\* A scan whose result is assigned outside the `if`: with no match the name of
\* the last entry is left in the variable.
RECURSIVE ScanFallThrough(_, _, _, _)
ScanFallThrough(table, i, content, default) ==
    IF i > Len(table) THEN table[Len(table)].name
    ELSE IF AnyIn(table[i].keywords, content) THEN table[i].name
    ELSE ScanFallThrough(table, i + 1, content, default)

RECURSIVE Scan(_, _, _, _)
Scan(table, i, content, default) ==
    IF i > Len(table) THEN default
    ELSE IF AnyIn(table[i].keywords, content) THEN table[i].name
    ELSE Scan(table, i + 1, content, default)

\* The two branches of the priority test in the other order.
priority_of_medium_first(content_lower) ==
    IF AnyIn(medium_priority_words, content_lower) THEN "Medium"
    ELSE IF AnyIn(high_priority_words, content_lower) THEN "High"
    ELSE "Normal"

priority_of(content_lower) ==
    IF AnyIn(high_priority_words, content_lower) THEN "High"
    ELSE IF AnyIn(medium_priority_words, content_lower) THEN "Medium"
    ELSE "Normal"

\* enhance_description with the focus-area loop missing its break.
enhance_description_focus_no_break(task_content, lbls) ==
    LET content_lower == Lower(task_content)
    IN  [category   |-> Scan(category_keywords, 1, content_lower, "Other"),
         task_type  |-> Scan(task_type_map, 1, content_lower, "General Organizing"),
         focus_area |-> ScanNoBreak(focus_keywords, 1, content_lower, "General Anti-Imperialism"),
         priority   |-> priority_of(content_lower),
         labels     |-> IF lbls = PyNone \/ lbls.items = <<>> THEN <<>> ELSE lbls.items]

enhance_description(task_content, lbls) ==
    LET content_lower == Lower(task_content)
    IN  [category   |-> Scan(category_keywords, 1, content_lower, "Other"),
         task_type  |-> Scan(task_type_map, 1, content_lower, "General Organizing"),
         focus_area |-> Scan(focus_keywords, 1, content_lower, "General Anti-Imperialism"),
         priority   |-> priority_of(content_lower),
         \* labels = labels or []
         labels     |-> IF lbls = PyNone \/ lbls.items = <<>> THEN <<>> ELSE lbls.items]

-----------------------------------------------------------------------------
(* estimate_duration.  Hours are integers: bases and results in tenths of  *)
(* an hour, base * multiplier in hundredths.                               *)

duration_map == <<
    [name |-> "Direct Action",         base |-> 40],
    [name |-> "Education",             base |-> 20],
    [name |-> "Meeting/Communication", base |-> 15],
    [name |-> "Content Creation",      base |-> 30],
    [name |-> "Organizing",            base |-> 25],
    [name |-> "Outreach",              base |-> 10],
    [name |-> "Fundraising",           base |-> 15],
    [name |-> "Digital Work",          base |-> 20],
    [name |-> "Other",                 base |-> 10]
>>

\* duration_map.get(category, 1.0), in tenths
duration_map_get(category) ==
    IF \E i \in 1..Len(duration_map) : duration_map[i].name = category
    THEN duration_map[CHOOSE i \in 1..Len(duration_map) : duration_map[i].name = category].base
    ELSE 10

quick_words == <<"quick", "brief", "short", "simple">>
major_words == <<"major", "comprehensive", "deep", "detailed", "complex">>
setup_words == <<"setup", "install", "configure">>

\* A round that truncates the second decimal.
RoundDown1(h) == h \div 10

\* Python round(x, 1) of x = h / 100: the nearest tenth.  The only ties the
\* estimator can produce (0.75, 1.25, 2.25, 3.75) are exact binary floats,
\* which round() sends to the even neighbour.
Round1(h) ==
    LET q == h \div 10
        r == h % 10
    IN  IF r < 5 THEN q
        ELSE IF r > 5 THEN q + 1
        ELSE IF q % 2 = 0 THEN q ELSE q + 1

\* The adjustments written as three independent ifs: they stack.
estimate_duration_stacking(task_content, category) ==
    LET base == duration_map_get(category)
        content_lower == Lower(task_content)
        m1 == IF AnyIn(quick_words, content_lower) THEN 5 ELSE 10
        m2 == IF AnyIn(major_words, content_lower) THEN 15 ELSE 10
        m3 == IF AnyIn(setup_words, content_lower) THEN 12 ELSE 10
    IN  Round1((base * m1 * m2 * m3) \div 100)

estimate_duration(task_content, category) ==
    LET base == duration_map_get(category)
        content_lower == Lower(task_content)
        adjusted ==
            IF AnyIn(quick_words, content_lower) THEN base * 5
            ELSE IF AnyIn(major_words, content_lower) THEN base * 15
            ELSE IF AnyIn(setup_words, content_lower) THEN base * 12
            ELSE base * 10
    IN  Round1(adjusted)

-----------------------------------------------------------------------------
(* calculate_actual_duration.  A timestamp string is the record of what it  *)
(* spells: the local date and time, counted in units of two minutes, and   *)
(* the zone suffix ("" for none, "Z", "+00:00", "+02:00").  Any other      *)
(* string is [kind |-> "str", text |-> ...]; other values have their kind. *)

PyStr(text) == [kind |-> "str", text |-> text]
PyInt(n) == [kind |-> "int", n |-> n]
IsoString(local, tz) == [kind |-> "iso", local |-> local, tz |-> tz]

UnitsPerHour == 30

\* Python truthiness of an argument: None, "" and 0 are false.
Truthy(x) ==
    CASE x.kind = "None" -> FALSE
      [] x.kind = "str"  -> x.text # ""
      [] x.kind = "int"  -> x.n # 0
      [] OTHER           -> TRUE

\* x.replace('Z', '+00:00'): only a str has the method.
replace_Z(x) ==
    CASE x.kind = "iso" -> [exc |-> "", value |-> IF x.tz = "Z" THEN IsoString(x.local, "+00:00") ELSE x]
      [] x.kind = "str" -> [exc |-> "", value |-> x]
      [] OTHER          -> [exc |-> "AttributeError"]

\* The UTC offset a zone suffix spells, in units.
utcoffset(tz) ==
    CASE tz = "+00:00" -> 0
      [] tz = "+02:00" -> 2 * UnitsPerHour

\* datetime.fromisoformat(s): a datetime, naive when the string has no zone.
\* The suffix "Z" is not a zone of fromisoformat before Python 3.11; the
\* caller has replaced it.
fromisoformat(s) ==
    IF s.kind # "iso" \/ s.tz = "Z"
    THEN [exc |-> "ValueError"]
    ELSE [exc |-> "",
          value |-> IF s.tz = ""
                    THEN [local |-> s.local, aware |-> FALSE, offset |-> 0]
                    ELSE [local |-> s.local, aware |-> TRUE, offset |-> utcoffset(s.tz)]]

\* a - b for two datetimes, in units: both naive, or both aware.
datetime_sub(a, b) ==
    IF a.aware # b.aware
    THEN [exc |-> "TypeError"]
    ELSE [exc |-> "", value |-> (a.local - a.offset) - (b.local - b.offset)]

PyFloat(tenths) == [kind |-> "float", tenths |-> tenths]

\* round(hours, 1) for hours = d / UnitsPerHour, in tenths.  A tenth of an
\* hour is three units, so no d lies halfway between two tenths.
round_hours(d) ==
    LET q == d \div 3
        r == d % 3
    IN  IF r = 2 THEN q + 1 ELSE q

\* The bound written with <= on both sides.
reasonable_inclusive(d) == 0 <= d /\ d <= 24 * 30 * UnitsPerHour

\* 0 < hours < (24 * 30)
reasonable(d) == 0 < d /\ d < 24 * 30 * UnitsPerHour

\* The body of the try block: [exc |-> name] when it raises, and otherwise
\* [exc |-> "", returned |-> TRUE, value |-> v] when it returns v inside the
\* block or [exc |-> "", returned |-> FALSE] when it falls out of it.
try_body(c_at, i_date) ==
    IF ~(Truthy(c_at) /\ Truthy(i_date)) THEN [exc |-> "", returned |-> FALSE]
    ELSE LET rc == replace_Z(c_at) IN
         IF rc.exc # "" THEN [exc |-> rc.exc] ELSE
         LET completed_time == fromisoformat(rc.value) IN
         IF completed_time.exc # "" THEN [exc |-> completed_time.exc] ELSE
         LET ri == replace_Z(i_date) IN
         IF ri.exc # "" THEN [exc |-> ri.exc] ELSE
         LET created_time == fromisoformat(ri.value) IN
         IF created_time.exc # "" THEN [exc |-> created_time.exc] ELSE
         LET duration == datetime_sub(completed_time.value, created_time.value) IN
         IF duration.exc # "" THEN [exc |-> duration.exc] ELSE
         IF reasonable(duration.value)
         THEN [exc |-> "", returned |-> TRUE, value |-> PyFloat(round_hours(duration.value))]
         ELSE [exc |-> "", returned |-> FALSE]

\* The handler written as `except ValueError: pass`.
calculate_actual_duration_except_ValueError(c_at, i_date) ==
    LET t == try_body(c_at, i_date)
    IN  IF t.exc \notin {"", "ValueError"} THEN [raised |-> t.exc, value |-> PyNone]
        ELSE IF t.exc = "" /\ t.returned THEN [raised |-> "", value |-> t.value]
        ELSE [raised |-> "", value |-> PyNone]

\* try: ... except: pass; return None.  The outcome is what the caller
\* sees: the exception that reached it ("" for none) and the value returned.
calculate_actual_duration(c_at, i_date) ==
    LET t == try_body(c_at, i_date)
    IN  IF t.exc = "" /\ t.returned THEN [raised |-> "", value |-> t.value]
        ELSE [raised |-> "", value |-> PyNone]

-----------------------------------------------------------------------------
(* Database (database.py): the completed_tasks table as the sequence of    *)
(* its rows; the integer primary key of a row is its position.             *)

\* session.query(CompletedTask).filter_by(task_id=task_id).first() is not None
task_exists(rows, task_id) ==
    \E i \in 1..Len(rows) : rows[i].task_id = task_id

\* CompletedTask(task_id=..., content=..., completed_at=..., project_name=...)
CompletedTask(id, task_data, project_name) ==
    [id           |-> id,
     task_id      |-> task_data.task_id,
     content      |-> task_data.content,
     completed_at |-> task_data.completed_at,
     project_name |-> project_name]

\* A save that writes the new data over an existing row.
save_task_overwrite(rows, task_data, project_name) ==
    IF task_exists(rows, task_data.task_id)
    THEN [rows |-> [i \in 1..Len(rows) |->
                       IF rows[i].task_id = task_data.task_id
                       THEN CompletedTask(i, task_data, project_name)
                       ELSE rows[i]],
          ret |-> FALSE]
    ELSE [rows |-> Append(rows, CompletedTask(Len(rows) + 1, task_data, project_name)),
          ret |-> TRUE]

\* save_task: the table after the call, and the value returned.
save_task(rows, task_data, project_name) ==
    IF task_exists(rows, task_data.task_id)
    THEN [rows |-> rows, ret |-> FALSE]
    ELSE [rows |-> Append(rows, CompletedTask(Len(rows) + 1, task_data, project_name)),
          ret |-> TRUE]

-----------------------------------------------------------------------------
(* TextGenerator.upload_tasks_to_db (gemini/text_generator.py): the Turso  *)
(* tasks table as the set of its rows, at most one per id.                 *)

\* The params tuple of the INSERT: the row written for a task.
upload_params(task, invoice_number, billing_date, billing_period) ==
    [id             |-> task.id,
     content        |-> task.content,
     billed         |-> "yes",
     paid           |-> "",
     billed_date    |-> billing_date,
     billing_period_start |-> billing_period,
     billing_period_end   |-> billing_period,
     invoice_number |-> invoice_number]

\* INSERT OR REPLACE INTO tasks: a row with the same primary key is deleted
\* and the new row is inserted.
insert_or_replace(rows, row) ==
    {r \in rows : r.id # row.id} \cup {row}

\* The for loop over tasks[1..n]: the table after n inserts.
RECURSIVE upload_loop(_, _, _, _, _, _)
upload_loop(rows, tasks, n, invoice_number, billing_date, billing_period) ==
    IF n = 0 THEN rows
    ELSE insert_or_replace(
             upload_loop(rows, tasks, n - 1, invoice_number, billing_date, billing_period),
             upload_params(tasks[n], invoice_number, billing_date, billing_period))

\* upload_tasks_to_db, when execute_command succeeds for the first `done`
\* tasks: it fails on the next one and returns False, or, with every task
\* done, returns True.
upload_tasks_to_db(rows, tasks, invoice_number, billing_date, billing_period, done) ==
    [rows |-> upload_loop(rows, tasks, done, invoice_number, billing_date, billing_period),
     ret  |-> done = Len(tasks)]

-----------------------------------------------------------------------------
(* Stripe invoice creation (stripe/invoice_creator.py and                  *)
(* stripe/billing_report_converter.py).  Stripe keeps, per customer, the   *)
(* pending invoice items; Invoice.create with                              *)
(* pending_invoice_items_behavior="include" moves every pending item of    *)
(* the customer onto the new invoice.  Any Stripe call may raise.          *)

RECURSIVE SumSeq(_)
SumSeq(q) == IF q = <<>> THEN 0 ELSE Head(q) + SumSeq(Tail(q))

\* The amount of the pending item InvoiceItem.create makes for item:
\* unit_amount * quantity when a quantity other than 1 is given, else amount.
invoice_item_amount(item) ==
    IF "quantity" \in DOMAIN item /\ item.quantity # 1
    THEN item.amount * item.quantity
    ELSE item.amount

\* for item in items: InvoiceItem.create(...), for the first n items.
RECURSIVE create_items(_, _, _)
create_items(pending, items, n) ==
    IF n = 0 THEN pending
    ELSE Append(create_items(pending, items, n - 1), invoice_item_amount(items[n]))

\* Invoice.create(customer=..., pending_invoice_items_behavior="include")
Invoice_create(pending, number) ==
    [number |-> number, lines |-> pending, amount_due |-> SumSeq(pending),
     status |-> "draft", sent |-> FALSE]

\* The Stripe calls of one invoice creation, in order: one InvoiceItem.create
\* per item, Invoice.create, Invoice.finalize_invoice and, with auto_send,
\* Invoice.send_invoice.
stripe_calls(items, auto_send) == Len(items) + 2 + (IF auto_send THEN 1 ELSE 0)

\* The calls with Invoice.send_invoice made before Invoice.finalize_invoice.
stripe_call_names_send_first(items, auto_send) ==
    [k \in 1..Len(items) |-> "InvoiceItem.create"]
        \o <<"Invoice.create">>
        \o (IF auto_send THEN <<"Invoice.send_invoice">> ELSE <<>>)
        \o <<"Invoice.finalize_invoice">>

\* The Stripe calls the body makes when none raises, in the order of the code.
stripe_call_names(items, auto_send) ==
    [k \in 1..Len(items) |-> "InvoiceItem.create"]
        \o <<"Invoice.create", "Invoice.finalize_invoice">>
        \o (IF auto_send THEN <<"Invoice.send_invoice">> ELSE <<>>)

\* The calls made when the call at position fail_at raises (0: none does):
\* the raising call is the last one.
stripe_calls_made(items, auto_send, fail_at) ==
    LET names == stripe_call_names(items, auto_send)
    IN  SubSeq(names, 1, IF fail_at = 0 THEN Len(names) ELSE fail_at)

\* The body shared by create_invoice_with_link and create_detailed_invoice:
\* try: <the Stripe calls>; return {"success": True, ...}
\* except Exception: return {"success": False, ...}
\* fail_at is the position of the Stripe call that raises, 0 when none does.
\* Gives Stripe's state after the call and the dict returned.
create_invoice(pending, invoices, items, number, auto_send, fail_at) ==
    LET n == Len(items)
        created == IF fail_at = 0 \/ fail_at > n THEN n ELSE fail_at - 1
        pending1 == create_items(pending, items, created)
        invoice == Invoice_create(pending1, number)
        finalized == [invoice EXCEPT !.status = "open"]
    IN  IF fail_at \in 1..(n + 1)
        THEN [pending |-> pending1, invoices |-> invoices,
              result |-> [success |-> FALSE]]
        ELSE IF fail_at = n + 2
        THEN [pending |-> <<>>, invoices |-> Append(invoices, invoice),
              result |-> [success |-> FALSE]]
        ELSE IF fail_at = n + 3
        THEN [pending |-> <<>>, invoices |-> Append(invoices, finalized),
              result |-> [success |-> FALSE]]
        ELSE [pending |-> <<>>,
              invoices |-> Append(invoices, [finalized EXCEPT !.sent = auto_send]),
              result |-> [success |-> TRUE,
                          invoice_number |-> finalized.number,
                          amount_due_cents |-> finalized.amount_due,
                          status |-> finalized.status]]

-----------------------------------------------------------------------------
(* Inputs: titles built from at most MaxFrags fragments.                   *)

MaxFrags == 2

RECURSIVE TitlesUpTo(_, _)
TitlesUpTo(frags, n) ==
    IF n = 0 THEN {""}
    ELSE LET T == TitlesUpTo(frags, n - 1) IN T \cup {t \o f : t \in T, f \in frags}

Fragments == {
    "Protest ", "STRIKE ", "article ", "Draft ", "Draft article ", "meeting ",
    "call ", "Zoom ", "research ", "re", "ad ", "plan ", "organize ", "email ",
    "fund", "raiser ", "website ", "social ", "media ", "coalition ",
    "statement ", "solidarity ", "mutual aid ", "notes ", "dns "
}

Titles == TitlesUpTo(Fragments, MaxFrags)

LabelInputs == {PyNone, PyList(<<"45 mins">>)}

EstimateFragments == {
    "Quick call with coalition", "Comprehensive research project",
    "Quick ", "major ", "Setup ", "brief ", "short", "DEEP ", "install ",
    "configure ", "simple ", "complex", "detail", "ed ", "notes "
}

EstimateTitles == TitlesUpTo(EstimateFragments, MaxFrags)

CategoryInputs == {duration_map[i].name : i \in 1..Len(duration_map)} \cup {"Unknown"}

\* Timestamps: the completion time T and creation times 0, 2, 720 and 800
\* hours before it and 1 hour after it, each up to MaxSkew units off.
MaxSkew == 1

\* The completion time of the inputs: an arbitrary instant, in units.
T == 1000 * UnitsPerHour

ZoneSuffixes == {"", "Z", "+00:00", "+02:00"}

NonTimestamps == {PyNone, PyStr(""), PyStr("not a date"), PyInt(5)}

CompletedInputs ==
    {IsoString(T + j, tz) : j \in -MaxSkew..MaxSkew, tz \in ZoneSuffixes}
        \cup NonTimestamps

CreatedInputs ==
    {IsoString(T - h * UnitsPerHour + j, tz) :
        h \in {0, 2, 720, 800, -1}, j \in -MaxSkew..MaxSkew, tz \in ZoneSuffixes}
        \cup NonTimestamps

\* save_task calls: at most MaxSaves of them, over three task ids.
MaxSaves == 3

TaskIds == {"t1", "t2", "t3"}

TaskDataInputs ==
    [task_id : TaskIds, content : {"Call union", "Draft flyer"}, completed_at : {1, 2}]

ProjectNames == {"Inbox", "AISC"}

\* upload_tasks_to_db calls: at most MaxUploads of them.
MaxUploads == 3

BillingTasks == {
    <<[id |-> "t1", content |-> "Call union"]>>,
    <<[id |-> "t2", content |-> "Draft flyer"]>>,
    <<[id |-> "t1", content |-> "Call union"], [id |-> "t2", content |-> "Draft flyer"]>>
}

\* Values of generate_invoice_number: INV-<YYYYMM>-<8 hex digits>.
InvoiceNumbers == {"INV-202611-1A2B3C4D", "INV-202611-9F8E7D6C", "INV-202612-0A0B0C0D"}

\* get_billing_date and get_billing_period at the n-th upload.
billing_date_at(n) == n
billing_period_at(n) == "2026-11"

\* Invoice-creation calls: at most MaxInvoiceCalls of them.
MaxInvoiceCalls == 2

\* The single 1000-cent item of test_single_task, and a list with a quantity.
ItemLists == {
    <<[description |-> "Test task - 15 minutes", amount |-> 1000, currency |-> "usd"]>>,
    <<[description |-> "Call union", amount |-> 500, currency |-> "usd"],
      [description |-> "Flyers", amount |-> 300, quantity |-> 2]>>
}

StripeInvoiceNumbers == {"TEST-SINGLE-1", "TEST-SINGLE-2"}

-----------------------------------------------------------------------------
(* Classifier specification.                                               *)

DurationIdle ==
    /\ completed_at = PyNone
    /\ item_date = PyNone
    /\ actual = NoResult

DatabaseIdle ==
    /\ completed_tasks_rows = <<>>
    /\ save_calls = <<>>

TursoIdle ==
    /\ tasks_rows = {}
    /\ uploads = 0

StripeIdle ==
    /\ stripe_pending = <<>>
    /\ stripe_invoices = <<>>
    /\ invoice_calls = <<>>

LabelIdle ==
    /\ task_labels = <<>>
    /\ hours = NoResult

AntiImperialistsIdle ==
    /\ anti_imperialists_cls = NoResult

NumberIdle ==
    /\ report_invoice_number = ""
    /\ unix_time = 0
    /\ unique_invoice_number = NoResult

SyncIdle ==
    /\ sync_runs = <<>>

ReportIdle ==
    /\ report_tasks = <<>>
    /\ report = NoResult
    /\ parsed_report = NoResult

GenerateIdle ==
    /\ completed_items = <<>>
    /\ completed_analysis = NoResult

ConnectionIdle ==
    /\ libsql_available = FALSE
    /\ connection = "None"
    /\ connection_calls = <<>>

MonitorIdle ==
    /\ open_sessions = 0
    /\ monitor_runs = <<>>

BillingIdle ==
    /\ json_tasks = <<>>
    /\ pdf_available = FALSE
    /\ billing_reports = <<>>

InitClassify ==
    /\ DurationIdle
    /\ DatabaseIdle
    /\ TursoIdle
    /\ StripeIdle
    /\ BillingIdle
    /\ MonitorIdle
    /\ ConnectionIdle
    /\ GenerateIdle
    /\ ReportIdle
    /\ SyncIdle
    /\ NumberIdle
    /\ AntiImperialistsIdle
    /\ LabelIdle
    /\ title \in Titles
    /\ labels \in LabelInputs
    /\ cls = NoResult
    /\ category_arg = ""
    /\ est = NoResult

EnhanceDescription ==
    /\ cls = NoResult
    /\ cls' = <<enhance_description(title, labels)>>
    /\ UNCHANGED <<title, labels, category_arg, est, durationVars, databaseVars, tursoVars, stripeVars, labelVars, antiImperialistsVars, numberVars, syncVars, reportVars, generateVars, connectionVars, monitorVars, billingVars>>

NextClassify == EnhanceDescription

SpecClassify == InitClassify /\ [][NextClassify]_vars

-----------------------------------------------------------------------------
(* Estimator specification.                                                *)

InitEstimate ==
    /\ DurationIdle
    /\ DatabaseIdle
    /\ TursoIdle
    /\ StripeIdle
    /\ BillingIdle
    /\ MonitorIdle
    /\ ConnectionIdle
    /\ GenerateIdle
    /\ ReportIdle
    /\ SyncIdle
    /\ NumberIdle
    /\ AntiImperialistsIdle
    /\ LabelIdle
    /\ title \in EstimateTitles
    /\ labels = PyNone
    /\ cls = NoResult
    /\ category_arg \in CategoryInputs
    /\ est = NoResult

EstimateDuration ==
    /\ est = NoResult
    /\ est' = <<estimate_duration(title, category_arg)>>
    /\ UNCHANGED <<title, labels, cls, category_arg, durationVars, databaseVars, tursoVars, stripeVars, labelVars, antiImperialistsVars, numberVars, syncVars, reportVars, generateVars, connectionVars, monitorVars, billingVars>>

NextEstimate == EstimateDuration

SpecEstimate == InitEstimate /\ [][NextEstimate]_vars

-----------------------------------------------------------------------------
(* Reconciler specification.                                               *)

ClassifierIdle ==
    /\ title = ""
    /\ labels = PyNone
    /\ cls = NoResult
    /\ category_arg = ""
    /\ est = NoResult

InitDuration ==
    /\ ClassifierIdle
    /\ DatabaseIdle
    /\ TursoIdle
    /\ StripeIdle
    /\ BillingIdle
    /\ MonitorIdle
    /\ ConnectionIdle
    /\ GenerateIdle
    /\ ReportIdle
    /\ SyncIdle
    /\ NumberIdle
    /\ AntiImperialistsIdle
    /\ LabelIdle
    /\ completed_at \in CompletedInputs
    /\ item_date \in CreatedInputs
    /\ actual = NoResult

CalculateActualDuration ==
    /\ actual = NoResult
    /\ actual' = <<calculate_actual_duration(completed_at, item_date)>>
    /\ UNCHANGED <<classifierVars, completed_at, item_date, databaseVars, tursoVars, stripeVars, labelVars, antiImperialistsVars, numberVars, syncVars, reportVars, generateVars, connectionVars, monitorVars, billingVars>>

NextDuration == CalculateActualDuration

SpecDuration == InitDuration /\ [][NextDuration]_vars

-----------------------------------------------------------------------------
(* Database specification.                                                 *)

InitDatabase ==
    /\ ClassifierIdle
    /\ DurationIdle
    /\ DatabaseIdle
    /\ TursoIdle
    /\ StripeIdle
    /\ BillingIdle
    /\ MonitorIdle
    /\ ConnectionIdle
    /\ GenerateIdle
    /\ ReportIdle
    /\ SyncIdle
    /\ NumberIdle
    /\ AntiImperialistsIdle
    /\ LabelIdle

SaveTask ==
    /\ Len(save_calls) < MaxSaves
    /\ \E task_data \in TaskDataInputs, project_name \in ProjectNames :
        LET r == save_task(completed_tasks_rows, task_data, project_name)
        IN  /\ completed_tasks_rows' = r.rows
            /\ save_calls' = Append(save_calls,
                                    [task_data |-> task_data,
                                     project_name |-> project_name,
                                     ret |-> r.ret])
    /\ UNCHANGED <<classifierVars, durationVars, tursoVars, stripeVars, labelVars, antiImperialistsVars, numberVars, syncVars, reportVars, generateVars, connectionVars, monitorVars, billingVars>>

NextDatabase == SaveTask

SpecDatabase == InitDatabase /\ [][NextDatabase]_vars

-----------------------------------------------------------------------------
(* Turso upload specification.                                             *)

InitTurso ==
    /\ ClassifierIdle
    /\ DurationIdle
    /\ DatabaseIdle
    /\ TursoIdle
    /\ StripeIdle
    /\ BillingIdle
    /\ MonitorIdle
    /\ ConnectionIdle
    /\ GenerateIdle
    /\ ReportIdle
    /\ SyncIdle
    /\ NumberIdle
    /\ AntiImperialistsIdle
    /\ LabelIdle

UploadTasksToDb ==
    /\ uploads < MaxUploads
    /\ \E tasks \in BillingTasks, invoice_number \in InvoiceNumbers :
        \E done \in 0..Len(tasks) :
            /\ tasks_rows' = upload_tasks_to_db(tasks_rows, tasks, invoice_number,
                                                billing_date_at(uploads + 1),
                                                billing_period_at(uploads + 1), done).rows
            /\ uploads' = uploads + 1
    /\ UNCHANGED <<classifierVars, durationVars, databaseVars, stripeVars, labelVars, antiImperialistsVars, numberVars, syncVars, reportVars, generateVars, connectionVars, monitorVars, billingVars>>

NextTurso == UploadTasksToDb

SpecTurso == InitTurso /\ [][NextTurso]_vars

-----------------------------------------------------------------------------
(* Stripe specification.                                                   *)

InitStripe ==
    /\ ClassifierIdle
    /\ DurationIdle
    /\ DatabaseIdle
    /\ TursoIdle
    /\ StripeIdle
    /\ BillingIdle
    /\ MonitorIdle
    /\ ConnectionIdle
    /\ GenerateIdle
    /\ ReportIdle
    /\ SyncIdle
    /\ NumberIdle
    /\ AntiImperialistsIdle
    /\ LabelIdle

\* One call of `method` with the given arguments, the Stripe call at
\* position fail_at raising (0: none).
InvoiceCall(method, items, number, auto_send, fail_at) ==
    LET r == create_invoice(stripe_pending, stripe_invoices, items, number,
                            auto_send, fail_at)
    IN  /\ stripe_pending' = r.pending
        /\ stripe_invoices' = r.invoices
        /\ invoice_calls' = Append(invoice_calls,
                                   [method |-> method, items |-> items,
                                    auto_send |-> auto_send, result |-> r.result,
                                    api |-> stripe_calls_made(items, auto_send, fail_at),
                                    raised_at |-> fail_at])

CreateInvoiceWithLink ==
    /\ Len(invoice_calls) < MaxInvoiceCalls
    /\ \E items \in ItemLists, number \in StripeInvoiceNumbers, auto_send \in BOOLEAN :
        \E fail_at \in 0..stripe_calls(items, auto_send) :
            InvoiceCall("create_invoice_with_link", items, number, auto_send, fail_at)
    /\ UNCHANGED <<classifierVars, durationVars, databaseVars, tursoVars, labelVars, antiImperialistsVars, numberVars, syncVars, reportVars, generateVars, connectionVars, monitorVars, billingVars>>

CreateDetailedInvoice ==
    /\ Len(invoice_calls) < MaxInvoiceCalls
    /\ \E items \in ItemLists, number \in StripeInvoiceNumbers, auto_send \in BOOLEAN :
        \E fail_at \in 0..stripe_calls(items, auto_send) :
            InvoiceCall("create_detailed_invoice", items, number, auto_send, fail_at)
    /\ UNCHANGED <<classifierVars, durationVars, databaseVars, tursoVars, labelVars, antiImperialistsVars, numberVars, syncVars, reportVars, generateVars, connectionVars, monitorVars, billingVars>>

NextStripe == CreateInvoiceWithLink \/ CreateDetailedInvoice

SpecStripe == InitStripe /\ [][NextStripe]_vars

-----------------------------------------------------------------------------
(* Claims about the classifier.                                            *)

Min(S) == CHOOSE x \in S : \A y \in S : x <= y

ClaimCategoryOrder == <<"Direct Action", "Education", "Meeting/Communication",
                        "Content Creation", "Organizing", "Outreach",
                        "Fundraising", "Digital Work">>

CategoryIndex(name) ==
    (CHOOSE i \in 1..Len(category_keywords) : category_keywords[i].name = name)

\* The positions of ClaimCategoryOrder whose category has a keyword in content.
CategoryHits(content) ==
    {i \in 1..Len(ClaimCategoryOrder) :
        AnyIn(category_keywords[CategoryIndex(ClaimCategoryOrder[i])].keywords, content)}

\* C1: the category is the first entry, in the order Direct Action, Education,
\* Meeting/Communication, Content Creation, Organizing, Outreach, Fundraising,
\* Digital Work, one of whose keywords occurs in the lower-cased title, and
\* Other when no keyword occurs; a title containing "protest" is Direct Action.
C1_CategoryFirstMatch ==
    cls # NoResult =>
        LET c == Lower(title)
            hits == CategoryHits(c)
        IN  /\ {category_keywords[i].name : i \in 1..Len(category_keywords)}
                 = {ClaimCategoryOrder[i] : i \in 1..Len(ClaimCategoryOrder)}
            /\ hits = {} => cls[1].category = "Other"
            /\ hits # {} => cls[1].category = ClaimCategoryOrder[Min(hits)]
            /\ Contains(c, "protest") => cls[1].category = "Direct Action"

\* A title with keywords of two categories, classified by the earlier one.
C1_Witness ==
    /\ cls # NoResult
    /\ Contains(Lower(title), "meeting")
    /\ Contains(Lower(title), "protest")
    /\ Cardinality(CategoryHits(Lower(title))) >= 2
    /\ cls[1].category = "Direct Action"

\* C2 as stated: every title containing both "article" and "draft" is Education.
C2_ArticleDraftAlwaysEducation ==
    (cls # NoResult /\ Contains(Lower(title), "article") /\ Contains(Lower(title), "draft"))
        => cls[1].category = "Education"

\* C2 amended: a title containing both "article" and "draft", and no Direct
\* Action keyword, is Education.
C2_ArticleDraftEducation ==
    (/\ cls # NoResult
     /\ Contains(Lower(title), "article")
     /\ Contains(Lower(title), "draft")
     /\ ~AnyIn(<<"protest", "rally", "march", "demonstration", "action",
                 "blockade", "occupation", "strike">>, Lower(title)))
        => cls[1].category = "Education"

C2_Witness ==
    /\ cls # NoResult
    /\ Contains(Lower(title), "article")
    /\ Contains(Lower(title), "draft")
    /\ cls[1].category = "Education"

ClaimTaskTypeOrder == <<"meeting", "zoom", "call", "protest", "rally", "march",
                        "research", "read", "study", "write", "draft",
                        "social media", "website", "dns", "substack",
                        "fundrais", "mutual aid", "solidarity", "coalition",
                        "statement", "email", "organize", "plan">>

\* task_type_map[keyword]
TaskTypeLabel(keyword) ==
    task_type_map[CHOOSE i \in 1..Len(task_type_map) :
                      task_type_map[i].keywords = <<keyword>>].name

TaskTypeHits(content) ==
    {i \in 1..Len(ClaimTaskTypeOrder) : Contains(content, ClaimTaskTypeOrder[i])}

\* C10: the task type is the label of the first keyword, in the order meeting,
\* zoom, call, ..., organize, plan, that occurs in the lower-cased title, and
\* General Organizing when none occurs.
C10_TaskTypeFirstMatch ==
    cls # NoResult =>
        LET hits == TaskTypeHits(Lower(title))
        IN  /\ hits = {} => cls[1].task_type = "General Organizing"
            /\ hits # {} =>
                 cls[1].task_type = TaskTypeLabel(ClaimTaskTypeOrder[Min(hits)])

\* "call" is written before "meeting" in the title, and "meeting" still wins.
C10_Witness ==
    /\ cls # NoResult
    /\ title = "call meeting "
    /\ cls[1].task_type = "Coalition Meeting"

-----------------------------------------------------------------------------
(* Claims about the estimator.                                             *)

\* The multiplier the claim prescribes, in tenths: the first matching group.
ClaimMultiplier(content) ==
    IF AnyIn(<<"quick", "brief", "short", "simple">>, content) THEN 5
    ELSE IF AnyIn(<<"major", "comprehensive", "deep", "detailed", "complex">>, content) THEN 15
    ELSE IF AnyIn(<<"setup", "install", "configure">>, content) THEN 12
    ELSE 10

\* How many of the three groups have a word in content.
GroupsMatched(content) ==
    Cardinality({g \in {quick_words, major_words, setup_words} : AnyIn(g, content)})

\* e (tenths) is a nearest tenth of h (hundredths).
NearestTenth(e, h) == 10 * e - h \in -5..5

\* C3: exactly one multiplier is applied to the category base, that of the
\* first matching group in the order quick (x0.5), major (x1.5), setup (x1.2);
\* no match leaves the base unadjusted.
C3_FirstGroupMultiplier ==
    est # NoResult =>
        LET m == ClaimMultiplier(Lower(title))
        IN  /\ NearestTenth(est[1], duration_map_get(category_arg) * m)
            /\ \A n \in {5, 10, 12, 15} \ {m} :
                   ~NearestTenth(est[1], duration_map_get(category_arg) * n)

\* A title with words of two groups, estimated with the earlier group only.
C3_Witness ==
    /\ est # NoResult
    /\ title = "major Quick "
    /\ category_arg = "Direct Action"
    /\ GroupsMatched(Lower(title)) = 2
    /\ est[1] = 20

ClaimBase(category) ==
    CASE category = "Direct Action"         -> 40
      [] category = "Education"             -> 20
      [] category = "Meeting/Communication" -> 15
      [] category = "Content Creation"      -> 30
      [] category = "Organizing"            -> 25
      [] category = "Outreach"              -> 10
      [] category = "Fundraising"           -> 15
      [] category = "Digital Work"          -> 20
      [] OTHER                              -> 10

\* C4: the estimate is base(category) x multiplier rounded to one decimal, with
\* the bases 4.0, 2.0, 1.5, 3.0, 2.5, 1.0, 1.5, 2.0 and 1.0 for Other or an
\* unknown category; "Quick call with coalition" as Meeting/Communication is
\* 0.8 and "Comprehensive research project" as Education is 3.0.
C4_BaseTimesMultiplierRounded ==
    est # NoResult =>
        /\ NearestTenth(est[1], ClaimBase(category_arg) * ClaimMultiplier(Lower(title)))
        /\ (title = "Quick call with coalition" /\ category_arg = "Meeting/Communication")
               => est[1] = 8
        /\ (title = "Comprehensive research project" /\ category_arg = "Education")
               => est[1] = 30

C4_Witness ==
    /\ est # NoResult
    /\ title = "Quick call with coalition"
    /\ category_arg = "Meeting/Communication"
    /\ est[1] = 8

-----------------------------------------------------------------------------
(* Claims about the reconciler.                                            *)

\* Both arguments are timestamps whose difference is defined: both carry a
\* zone, or neither does.
Comparable(c_at, i_date) ==
    /\ c_at.kind = "iso"
    /\ i_date.kind = "iso"
    /\ (c_at.tz = "") = (i_date.tz = "")

\* The instant a timestamp names, in units: its local time less its offset.
Instant(x) ==
    x.local - (IF x.tz = "+02:00" THEN 2 * UnitsPerHour ELSE 0)

\* completedAt - createdAt, in units.
Delta(c_at, i_date) == Instant(c_at) - Instant(i_date)

\* C5: a value is returned only if both timestamps are present and
\* 0 < hours < 720, and it is the difference in hours rounded to one decimal;
\* otherwise None is returned: 2 hours give 2.0, and 800 hours, -1 hour, 0
\* and a missing timestamp give None.
C5_ValueOnlyWithin30Days ==
    actual # NoResult =>
        LET r == actual[1].value
            d == Delta(completed_at, item_date)
        IN  /\ r # PyNone =>
                 /\ Comparable(completed_at, item_date)
                 /\ 0 < d /\ d < 720 * UnitsPerHour
                 /\ r.tenths * 3 - d \in -1..1
            /\ (Comparable(completed_at, item_date) /\ 0 < d /\ d < 720 * UnitsPerHour)
                 => r # PyNone
            /\ (Comparable(completed_at, item_date) /\ d = 2 * UnitsPerHour)
                 => r = PyFloat(20)
            /\ (Comparable(completed_at, item_date)
                  /\ d \in {800 * UnitsPerHour, -1 * UnitsPerHour, 0})
                 => r = PyNone
            /\ (completed_at \in {PyNone, PyStr("")} \/ item_date \in {PyNone, PyStr("")})
                 => r = PyNone

\* Just under the 30-day cap a value is returned.
C5_Witness ==
    /\ actual # NoResult
    /\ Comparable(completed_at, item_date)
    /\ Delta(completed_at, item_date) = 720 * UnitsPerHour - 1
    /\ actual[1].value = PyFloat(7200)

\* C6: no exception reaches the caller; unparseable strings, a zoned and an
\* unzoned timestamp, non-string values, empty strings and None give None.
C6_NeverRaises ==
    actual # NoResult =>
        /\ actual[1].raised = ""
        /\ ~Comparable(completed_at, item_date) => actual[1].value = PyNone

\* A zoned completion time and an unzoned creation time: the subtraction
\* raises TypeError inside the try block.
C6_Witness ==
    /\ actual # NoResult
    /\ completed_at.kind = "iso" /\ completed_at.tz = "Z"
    /\ item_date.kind = "iso" /\ item_date.tz = ""
    /\ try_body(completed_at, item_date).exc = "TypeError"
    /\ actual[1] = [raised |-> "", value |-> PyNone]

-----------------------------------------------------------------------------
(* Claims about Database.save_task.                                        *)

\* The first call of save_calls that carries task_id.
FirstSave(task_id) ==
    save_calls[Min({k \in 1..Len(save_calls) : save_calls[k].task_data.task_id = task_id})]

RowsOf(task_id) ==
    {i \in 1..Len(completed_tasks_rows) : completed_tasks_rows[i].task_id = task_id}

\* C7: a save of a task_id already stored returns False and changes no row;
\* a save of a new task_id inserts one row and returns True; so the table
\* holds exactly one row per task_id seen, with the data of its first save.
C7_SaveTaskIdempotent ==
    LET seen == {save_calls[k].task_data.task_id : k \in 1..Len(save_calls)}
    IN  /\ Len(completed_tasks_rows) = Cardinality(seen)
        /\ \A t \in seen :
              /\ Cardinality(RowsOf(t)) = 1
              /\ \A i \in RowsOf(t) :
                    /\ completed_tasks_rows[i].content = FirstSave(t).task_data.content
                    /\ completed_tasks_rows[i].completed_at = FirstSave(t).task_data.completed_at
                    /\ completed_tasks_rows[i].project_name = FirstSave(t).project_name
        /\ \A k \in 1..Len(save_calls) :
              save_calls[k].ret =
                  (\A j \in 1..(k - 1) :
                      save_calls[j].task_data.task_id # save_calls[k].task_data.task_id)

\* t1 saved, then saved again with other data: the second call returned
\* False and the row still has the first content.
C7_Witness ==
    /\ Len(save_calls) = 2
    /\ save_calls[1].task_data.task_id = "t1"
    /\ save_calls[2].task_data.task_id = "t1"
    /\ save_calls[1].task_data.content = "Call union"
    /\ save_calls[2].task_data.content = "Draft flyer"
    /\ save_calls[1].ret = TRUE
    /\ save_calls[2].ret = FALSE
    /\ Len(completed_tasks_rows) = 1
    /\ completed_tasks_rows[1].content = "Call union"

-----------------------------------------------------------------------------
(* Claims about TextGenerator.upload_tasks_to_db.                          *)

\* C8: uploading a task whose id is already in the tasks table is a no-op:
\* the stored row keeps its billed, paid, billed_date and invoice_number.
C8_UploadKeepsStoredRow ==
    [][\A r \in tasks_rows : \A q \in tasks_rows' :
          q.id = r.id =>
              /\ q.billed = r.billed
              /\ q.paid = r.paid
              /\ q.billed_date = r.billed_date
              /\ q.invoice_number = r.invoice_number]_vars

-----------------------------------------------------------------------------
(* Claims about the Stripe invoice creation.                               *)

\* The amounts of the items passed to a call, summed.
RECURSIVE ItemsTotal(_)
ItemsTotal(items) ==
    IF items = <<>> THEN 0
    ELSE invoice_item_amount(Head(items)) + ItemsTotal(Tail(items))

\* C9: the amount due of every successfully created invoice is the sum of the
\* amounts of the items passed to that call, also after earlier calls that
\* failed part-way; a single 1000-cent item gives $10.00.
C9_AmountDueIsItemsTotal ==
    \A k \in 1..Len(invoice_calls) :
        invoice_calls[k].result.success =>
            invoice_calls[k].result.amount_due_cents = ItemsTotal(invoice_calls[k].items)

-----------------------------------------------------------------------------
(* Claims about the independence of the classifier's tags.                 *)

\* C11: category and task_type are computed by two independent scans and may
\* disagree: a title with the keyword "meeting", an Education keyword and no
\* Direct Action keyword has category Education and task_type Coalition
\* Meeting; "research meeting " is such a title.
C11_EducationCoalitionMeeting ==
    cls # NoResult =>
        LET c == Lower(title)
        IN  /\ (/\ Contains(c, "meeting")
                /\ AnyIn(<<"read", "study", "research", "learn", "book", "article",
                           "theory", "analysis", "teach">>, c)
                /\ ~AnyIn(<<"protest", "rally", "march", "demonstration", "action",
                            "blockade", "occupation", "strike">>, c))
                 => (cls[1].category = "Education"
                       /\ cls[1].task_type = "Coalition Meeting")
            /\ title = "research meeting "
                 => (cls[1].category = "Education"
                       /\ cls[1].task_type = "Coalition Meeting")

C11_Witness ==
    /\ cls # NoResult
    /\ title = "research meeting "
    /\ cls[1].category = "Education"
    /\ cls[1].task_type = "Coalition Meeting"

-----------------------------------------------------------------------------
(* Focus-area specification: enhance_description on titles built from      *)
(* focus-area words.                                                       *)

FocusFragments == {
    "Gaza ", "occupation ", "war", "soft", "ware ", "police ", "climate ",
    "STRIKE ", "union ", "justice ", "rent ", "cur", "native ", "website ",
    "notes "
}

FocusTitles == TitlesUpTo(FocusFragments, MaxFrags)

InitFocus ==
    /\ DurationIdle
    /\ DatabaseIdle
    /\ TursoIdle
    /\ StripeIdle
    /\ BillingIdle
    /\ MonitorIdle
    /\ ConnectionIdle
    /\ GenerateIdle
    /\ ReportIdle
    /\ SyncIdle
    /\ NumberIdle
    /\ AntiImperialistsIdle
    /\ LabelIdle
    /\ title \in FocusTitles
    /\ labels \in LabelInputs
    /\ cls = NoResult
    /\ category_arg = ""
    /\ est = NoResult

SpecFocus == InitFocus /\ [][NextClassify]_vars

ClaimFocusOrder == <<"Palestine Solidarity", "Anti-War", "Racial Justice",
                     "Climate Justice", "Labor Rights", "Immigration Justice",
                     "Housing Justice", "Indigenous Solidarity",
                     "Digital Organizing">>

FocusIndex(name) ==
    (CHOOSE i \in 1..Len(focus_keywords) : focus_keywords[i].name = name)

\* The positions of ClaimFocusOrder whose tag has a keyword in content.
FocusHits(content) ==
    {i \in 1..Len(ClaimFocusOrder) :
        AnyIn(focus_keywords[FocusIndex(ClaimFocusOrder[i])].keywords, content)}

\* C12: the focus area is the first tag, in the order Palestine Solidarity,
\* Anti-War, Racial Justice, Climate Justice, Labor Rights, Immigration
\* Justice, Housing Justice, Indigenous Solidarity, Digital Organizing, one of
\* whose keywords is a substring of the lower-cased title, and General
\* Anti-Imperialism when no keyword occurs.
C12_FocusFirstMatch ==
    cls # NoResult =>
        LET hits == FocusHits(Lower(title))
        IN  /\ {focus_keywords[i].name : i \in 1..Len(focus_keywords)}
                 = {ClaimFocusOrder[i] : i \in 1..Len(ClaimFocusOrder)}
            /\ hits = {} => cls[1].focus_area = "General Anti-Imperialism"
            /\ hits # {} => cls[1].focus_area = ClaimFocusOrder[Min(hits)]

\* "rent" (Housing Justice) is written before "strike" (Labor Rights), and
\* Labor Rights, declared earlier, is the focus area.
C12_Witness ==
    /\ cls # NoResult
    /\ title = "rent STRIKE "
    /\ Cardinality(FocusHits(Lower(title))) = 2
    /\ cls[1].focus_area = "Labor Rights"


-----------------------------------------------------------------------------
(* Priority specification: enhance_description on titles built from        *)
(* priority words.                                                         *)

PriorityFragments == {
    "URGENT ", "important ", "critical ", "deadline ", "asap ", "soon ",
    "this ", "week ", "follow ", "up ", "check ", "notes "
}

PriorityTitles == TitlesUpTo(PriorityFragments, MaxFrags)

InitPriority ==
    /\ DurationIdle
    /\ DatabaseIdle
    /\ TursoIdle
    /\ StripeIdle
    /\ BillingIdle
    /\ MonitorIdle
    /\ ConnectionIdle
    /\ GenerateIdle
    /\ ReportIdle
    /\ SyncIdle
    /\ NumberIdle
    /\ AntiImperialistsIdle
    /\ LabelIdle
    /\ title \in PriorityTitles
    /\ labels \in LabelInputs
    /\ cls = NoResult
    /\ category_arg = ""
    /\ est = NoResult

SpecPriority == InitPriority /\ [][NextClassify]_vars

\* C13: priority is High when the lower-cased title contains urgent,
\* important, critical, deadline or asap; otherwise Medium when it contains
\* soon, this week, follow up or check; otherwise Normal.  A title with a
\* High and a Medium keyword is High.
C13_PriorityHighBeforeMedium ==
    cls # NoResult =>
        LET c == Lower(title)
            high == AnyIn(<<"urgent", "important", "critical", "deadline", "asap">>, c)
            medium == AnyIn(<<"soon", "this week", "follow up", "check">>, c)
        IN  /\ high => cls[1].priority = "High"
            /\ (~high /\ medium) => cls[1].priority = "Medium"
            /\ (~high /\ ~medium) => cls[1].priority = "Normal"

\* A Medium keyword written before a High keyword: the priority is High.
C13_Witness ==
    /\ cls # NoResult
    /\ title = "soon URGENT "
    /\ cls[1].priority = "High"


-----------------------------------------------------------------------------
(* Analysis specification: the loop body of generate_report, which calls   *)
(* enhance_description, estimate_duration with the category just computed, *)
(* and calculate_actual_duration, on one completed item.                   *)

AnalyzeFragments == {
    "Quick ", "call ", "Protest ", "research ", "notes ", "Setup ",
    "website ", "major ", "flyer ", "donate "
}

AnalyzeTitles == TitlesUpTo(AnalyzeFragments, MaxFrags)

\* (completed_at, item_date) of the item: both missing, or two hours apart.
AnalyzeTimestamps == {
    <<PyNone, PyNone>>,
    <<IsoString(T, "Z"), IsoString(T - 2 * UnitsPerHour, "Z")>>
}

InitAnalyze ==
    /\ DatabaseIdle
    /\ TursoIdle
    /\ StripeIdle
    /\ BillingIdle
    /\ MonitorIdle
    /\ ConnectionIdle
    /\ GenerateIdle
    /\ ReportIdle
    /\ SyncIdle
    /\ NumberIdle
    /\ AntiImperialistsIdle
    /\ LabelIdle
    /\ title \in AnalyzeTitles
    /\ labels \in LabelInputs
    /\ cls = NoResult
    /\ category_arg = ""
    /\ est = NoResult
    /\ \E ts \in AnalyzeTimestamps : completed_at = ts[1] /\ item_date = ts[2]
    /\ actual = NoResult

AnalyzeItem ==
    /\ cls = NoResult
    /\ LET enhanced == enhance_description(title, labels)
       IN  /\ cls' = <<enhanced>>
           /\ category_arg' = enhanced.category
           /\ est' = <<estimate_duration(title, enhanced.category)>>
    /\ actual' = <<calculate_actual_duration(completed_at, item_date)>>
    /\ UNCHANGED <<title, labels, completed_at, item_date, databaseVars, tursoVars, stripeVars, labelVars, antiImperialistsVars, numberVars, syncVars, reportVars, generateVars, connectionVars, monitorVars, billingVars>>

NextAnalyze == AnalyzeItem

SpecAnalyze == InitAnalyze /\ [][NextAnalyze]_vars

\* C15: an empty title does not fail and gets every default: category Other,
\* task_type General Organizing, focus_area General Anti-Imperialism, priority
\* Normal, and an estimated duration of 1.0 hour.
C15_EmptyTitleDefaults ==
    (cls # NoResult /\ title = "") =>
        /\ cls[1].category = "Other"
        /\ cls[1].task_type = "General Organizing"
        /\ cls[1].focus_area = "General Anti-Imperialism"
        /\ cls[1].priority = "Normal"
        /\ category_arg = "Other"
        /\ est = <<10>>

C15_Witness ==
    /\ title = ""
    /\ cls # NoResult
    /\ cls[1].category = "Other"
    /\ est = <<10>>


-----------------------------------------------------------------------------
(* TextGenerator.extract_hours_from_labels.  Hours are integers, in        *)
(* hundredths of an hour.                                                  *)

Digits == "0123456789"

IsDigit(c) == \E i \in 1..Len(Digits) : SubSeq(Digits, i, i) = c

DigitValue(c) == (CHOOSE i \in 1..Len(Digits) : SubSeq(Digits, i, i) = c) - 1

\* The last position of the run of digits that starts at position i.
RECURSIVE digit_run_end(_, _)
digit_run_end(s, i) ==
    IF i + 1 <= Len(s) /\ IsDigit(SubSeq(s, i + 1, i + 1))
    THEN digit_run_end(s, i + 1)
    ELSE i

\* re.search(r'(\d+)', label).group(1): the leftmost, longest run of digits;
\* "" stands for no match.
re_search_digits(label) ==
    LET starts == {i \in 1..Len(label) : IsDigit(SubSeq(label, i, i))}
    IN  IF starts = {} THEN ""
        ELSE SubSeq(label, Min(starts), digit_run_end(label, Min(starts)))

\* int(s) for a string of digits.
RECURSIVE int(_)
int(s) ==
    IF s = "" THEN 0
    ELSE 10 * int(SubSeq(s, 1, Len(s) - 1)) + DigitValue(SubSeq(s, Len(s), Len(s)))

\* round(minutes / 60.0, 2), in hundredths: the integer nearest to
\* 100 * minutes / 60 (5 * minutes / 3 is never half-way between two integers).
round_minutes_to_hours(minutes) == (10 * minutes + 3) \div 6

RECURSIVE extract_hours_from_labels(_)
extract_hours_from_labels(lbls) ==
    IF lbls = <<>> THEN 0
    ELSE LET label == Head(lbls)
             match == re_search_digits(label)
         IN  IF (Contains(label, "mins") \/ Contains(label, "min")) /\ match # ""
             THEN round_minutes_to_hours(int(match))
             ELSE extract_hours_from_labels(Tail(lbls))

\* Label lists of at most MaxLabels labels.
MaxLabels == 2

LabelVocabulary == {
    "45 mins", "15 min", "90 mins", "10 mins", "urgent", "billing", "admin",
    "v2 admin"
}

RECURSIVE LabelLists(_)
LabelLists(n) ==
    IF n = 0 THEN {<<>>}
    ELSE LET L == LabelLists(n - 1)
         IN  L \cup {Append(l, x) : l \in L, x \in LabelVocabulary}

InitExtract ==
    /\ ClassifierIdle
    /\ DurationIdle
    /\ DatabaseIdle
    /\ TursoIdle
    /\ StripeIdle
    /\ BillingIdle
    /\ MonitorIdle
    /\ ConnectionIdle
    /\ GenerateIdle
    /\ ReportIdle
    /\ SyncIdle
    /\ NumberIdle
    /\ AntiImperialistsIdle
    /\ task_labels \in LabelLists(MaxLabels)
    /\ hours = NoResult

ExtractHoursFromLabels ==
    /\ hours = NoResult
    /\ hours' = <<extract_hours_from_labels(task_labels)>>
    /\ UNCHANGED <<classifierVars, durationVars, databaseVars, tursoVars, stripeVars, task_labels, antiImperialistsVars, numberVars, syncVars, reportVars, generateVars, connectionVars, monitorVars, billingVars>>

NextExtract == ExtractHoursFromLabels

SpecExtract == InitExtract /\ [][NextExtract]_vars

\* The positions where a "<N> min" / "<N> mins" duration starts in label: a
\* run of digits followed by " min".
DurationStarts(label) ==
    {i \in 1..Len(label) :
        /\ IsDigit(SubSeq(label, i, i))
        /\ (i = 1 \/ ~IsDigit(SubSeq(label, i - 1, i - 1)))
        /\ LET e == digit_run_end(label, i)
           IN  SubSeq(label, e + 1, e + 4) = " min"}

\* The N of a label that matches the pattern.
DurationMinutes(label) ==
    LET i == Min(DurationStarts(label))
    IN  int(SubSeq(label, i, digit_run_end(label, i)))

\* C16: extract_hours_from_labels returns N / 60 rounded to two decimals for
\* the first label that matches "<N> mins" / "<N> min" ("45 mins" gives 0.75),
\* and 0.0 when no label of the list, the empty list included, is
\* duration-like.
C16_FirstDurationLabel ==
    hours # NoResult =>
        LET matching == {k \in 1..Len(task_labels) : DurationStarts(task_labels[k]) # {}}
        IN  /\ matching = {} => hours[1] = 0
            /\ matching # {} =>
                 LET n == DurationMinutes(task_labels[Min(matching)])
                 IN  (hours[1] * 60 - n * 100) \in -30..30
            /\ task_labels = <<"45 mins">> => hours[1] = 75


-----------------------------------------------------------------------------
(* enhance_description of anti_imperialists.py: its own keyword tables, in *)
(* declaration order, and its own scans.                                   *)

anti_imperialists_category_keywords == <<
    [name |-> "Direct Action",
     keywords |-> <<"protest", "rally", "march", "demonstration", "action", "blockade", "occupation", "strike">>],
    [name |-> "Education",
     keywords |-> <<"read", "study", "research", "learn", "book", "article", "theory", "analysis", "teach">>],
    [name |-> "Meeting/Communication",
     keywords |-> <<"meet", "call", "discussion", "zoom", "conference", "talk", "phone">>],
    [name |-> "Content Creation",
     keywords |-> <<"write", "draft", "edit", "post", "blog", "statement", "article", "flyer">>],
    [name |-> "Organizing",
     keywords |-> <<"organize", "plan", "coordinate", "schedule", "logistics", "prepare">>],
    [name |-> "Outreach",
     keywords |-> <<"email", "contact", "reach out", "follow up", "outreach", "connect">>],
    [name |-> "Fundraising",
     keywords |-> <<"fund", "donate", "money", "budget", "fundraiser", "donation">>],
    [name |-> "Digital Work",
     keywords |-> <<"website", "social media", "online", "digital", "internet", "dns", "substack">>]
>>

anti_imperialists_task_type_map == <<
    [name |-> "Coalition Meeting",       keywords |-> <<"meeting">>],
    [name |-> "Virtual Meeting",         keywords |-> <<"zoom">>],
    [name |-> "Phone Call",              keywords |-> <<"call">>],
    [name |-> "Street Action",           keywords |-> <<"protest">>],
    [name |-> "Mass Mobilization",       keywords |-> <<"rally">>],
    [name |-> "Public Demonstration",    keywords |-> <<"march">>],
    [name |-> "Political Research",      keywords |-> <<"research">>],
    [name |-> "Political Education",     keywords |-> <<"read">>],
    [name |-> "Theory Study",            keywords |-> <<"study">>],
    [name |-> "Content Creation",        keywords |-> <<"write">>],
    [name |-> "Document Preparation",    keywords |-> <<"draft">>],
    [name |-> "Digital Organizing",      keywords |-> <<"social media">>],
    [name |-> "Digital Infrastructure",  keywords |-> <<"website">>],
    [name |-> "Technical Setup",         keywords |-> <<"dns">>],
    [name |-> "Publishing Platform",     keywords |-> <<"substack">>],
    [name |-> "Resource Development",    keywords |-> <<"fundrais">>],
    [name |-> "Community Support",       keywords |-> <<"mutual aid">>],
    [name |-> "Solidarity Work",         keywords |-> <<"solidarity">>],
    [name |-> "Alliance Building",       keywords |-> <<"coalition">>],
    [name |-> "Political Communication", keywords |-> <<"statement">>],
    [name |-> "Digital Outreach",        keywords |-> <<"email">>],
    [name |-> "Community Organizing",    keywords |-> <<"organize">>],
    [name |-> "Strategic Planning",      keywords |-> <<"plan">>]
>>

\* A focus table that has drifted from the one of main.py: "occupation" moved
\* from Palestine Solidarity to Labor Rights.
anti_imperialists_focus_keywords_drifted == <<
    [name |-> "Palestine Solidarity",
     keywords |-> <<"palestine", "gaza", "israel", "bds", "apartheid", "zionism">>],
    [name |-> "Anti-War",
     keywords |-> <<"war", "military", "pentagon", "intervention", "nato", "sanctions", "imperialism">>],
    [name |-> "Racial Justice",
     keywords |-> <<"blm", "black lives", "racism", "police", "white supremacy", "racial">>],
    [name |-> "Climate Justice",
     keywords |-> <<"climate", "environment", "pipeline", "fossil", "carbon", "green">>],
    [name |-> "Labor Rights",
     keywords |-> <<"labor", "union", "strike", "occupation", "worker", "wages", "workplace">>],
    [name |-> "Immigration Justice",
     keywords |-> <<"immigration", "migrant", "refugee", "ice", "border", "deportation">>],
    [name |-> "Housing Justice",
     keywords |-> <<"housing", "tenant", "rent", "eviction", "gentrification", "homeless">>],
    [name |-> "Indigenous Solidarity",
     keywords |-> <<"indigenous", "native", "tribal", "land back", "sovereignty">>],
    [name |-> "Digital Organizing",
     keywords |-> <<"website", "online", "digital", "internet", "social media", "substack">>]
>>

anti_imperialists_focus_keywords == <<
    [name |-> "Palestine Solidarity",
     keywords |-> <<"palestine", "gaza", "israel", "bds", "apartheid", "zionism", "occupation">>],
    [name |-> "Anti-War",
     keywords |-> <<"war", "military", "pentagon", "intervention", "nato", "sanctions", "imperialism">>],
    [name |-> "Racial Justice",
     keywords |-> <<"blm", "black lives", "racism", "police", "white supremacy", "racial">>],
    [name |-> "Climate Justice",
     keywords |-> <<"climate", "environment", "pipeline", "fossil", "carbon", "green">>],
    [name |-> "Labor Rights",
     keywords |-> <<"labor", "union", "strike", "worker", "wages", "workplace">>],
    [name |-> "Immigration Justice",
     keywords |-> <<"immigration", "migrant", "refugee", "ice", "border", "deportation">>],
    [name |-> "Housing Justice",
     keywords |-> <<"housing", "tenant", "rent", "eviction", "gentrification", "homeless">>],
    [name |-> "Indigenous Solidarity",
     keywords |-> <<"indigenous", "native", "tribal", "land back", "sovereignty">>],
    [name |-> "Digital Organizing",
     keywords |-> <<"website", "online", "digital", "internet", "social media", "substack">>]
>>

anti_imperialists_enhance_description(task_content, lbls) ==
    LET content_lower == Lower(task_content)
    IN  [category   |-> Scan(anti_imperialists_category_keywords, 1, content_lower, "Other"),
         task_type  |-> Scan(anti_imperialists_task_type_map, 1, content_lower,
                             "General Organizing"),
         focus_area |-> Scan(anti_imperialists_focus_keywords, 1, content_lower,
                             "General Anti-Imperialism"),
         priority   |-> priority_of(content_lower),
         labels     |-> IF lbls = PyNone \/ lbls.items = <<>> THEN <<>> ELSE lbls.items]


-----------------------------------------------------------------------------
(* Two-implementation specification: the same title and labels classified  *)
(* by main.py and by anti_imperialists.py, in either order.                *)

InitBoth ==
    /\ DurationIdle
    /\ DatabaseIdle
    /\ TursoIdle
    /\ StripeIdle
    /\ BillingIdle
    /\ MonitorIdle
    /\ ConnectionIdle
    /\ GenerateIdle
    /\ ReportIdle
    /\ SyncIdle
    /\ NumberIdle
    /\ LabelIdle
    /\ title \in FocusTitles
    /\ labels \in LabelInputs
    /\ cls = NoResult
    /\ category_arg = ""
    /\ est = NoResult
    /\ anti_imperialists_cls = NoResult

AntiImperialistsEnhanceDescription ==
    /\ anti_imperialists_cls = NoResult
    /\ anti_imperialists_cls' = <<anti_imperialists_enhance_description(title, labels)>>
    /\ UNCHANGED <<classifierVars, durationVars, databaseVars, tursoVars, stripeVars, labelVars, numberVars, syncVars, reportVars, generateVars, connectionVars, monitorVars, billingVars>>

NextBoth == EnhanceDescription \/ AntiImperialistsEnhanceDescription

SpecBoth == InitBoth /\ [][NextBoth]_vars

\* focus_area as each implementation computes it.
main_focus_area(t) ==
    Scan(focus_keywords, 1, Lower(t), "General Anti-Imperialism")

anti_imperialists_focus_area(t) ==
    Scan(anti_imperialists_focus_keywords, 1, Lower(t), "General Anti-Imperialism")

\* C17 as stated: the focus-area keyword sets of main.py and of
\* anti_imperialists.py are inconsistent, and there is a title for which the
\* two implementations return different focus areas (observed once both have
\* classified a title).
C17_FocusAreasDiffer ==
    (cls # NoResult /\ anti_imperialists_cls # NoResult) =>
        /\ focus_keywords # anti_imperialists_focus_keywords
        /\ \E t \in FocusTitles : main_focus_area(t) # anti_imperialists_focus_area(t)

\* C17 amended: the two implementations have the same focus-area table, tag
\* for tag and keyword for keyword in the same order, and return the same
\* focus area for every title.
C17_SameFocusArea ==
    /\ focus_keywords = anti_imperialists_focus_keywords
    /\ (cls # NoResult /\ anti_imperialists_cls # NoResult)
           => cls[1].focus_area = anti_imperialists_cls[1].focus_area

\* Both implementations have classified a title with keywords of two tags.
C17_Witness ==
    /\ cls # NoResult
    /\ anti_imperialists_cls # NoResult
    /\ title = "occupation STRIKE "
    /\ cls[1].focus_area = "Palestine Solidarity"
    /\ anti_imperialists_cls[1].focus_area = "Palestine Solidarity"


-----------------------------------------------------------------------------
(* The invoice number of create_invoice_from_report.                       *)

\* str(n) for n >= 0.
RECURSIVE str(_)
str(n) ==
    IF n < 10 THEN SubSeq(Digits, n + 1, n + 1)
    ELSE str(n \div 10) \o SubSeq(Digits, (n % 10) + 1, (n % 10) + 1)

\* s[:n] and s[-n:]
slice_to(s, n) == SubSeq(s, 1, IF Len(s) < n THEN Len(s) ELSE n)
slice_last(s, n) == SubSeq(s, IF Len(s) < n THEN 1 ELSE Len(s) - n + 1, Len(s))

\* f"INV-{date_prefix}-{unique_suffix}"
generate_invoice_number(date_prefix, unique_suffix) ==
    "INV-" \o date_prefix \o "-" \o unique_suffix

\* timestamp = str(int(time.time()))[-6:]; base_number = invoice_number[:19]
make_unique_invoice_number(invoice_number, now) ==
    slice_to(invoice_number, 19) \o "-" \o slice_last(str(now), 6)

\* The clock: MaxTicks seconds from Now on, and an instant whose last six
\* digits begin with zeros.
MaxTicks == 8
Now == 1762412400
UnixTimes == {Now + j : j \in 0..MaxTicks} \cup {Now - 412395}

ReportInvoiceNumbers ==
    {generate_invoice_number(d, u) : d \in {"202611", "202612"},
                                     u \in {"1A2B3C4D", "9F8E7D6C"}}
        \cup {"", "INV-1", "INV-202611-1A2B3C4D-REVISED"}

InitNumber ==
    /\ ClassifierIdle
    /\ DurationIdle
    /\ DatabaseIdle
    /\ TursoIdle
    /\ StripeIdle
    /\ BillingIdle
    /\ MonitorIdle
    /\ ConnectionIdle
    /\ GenerateIdle
    /\ ReportIdle
    /\ SyncIdle
    /\ LabelIdle
    /\ AntiImperialistsIdle
    /\ report_invoice_number \in ReportInvoiceNumbers
    /\ unix_time \in UnixTimes
    /\ unique_invoice_number = NoResult

MakeUniqueInvoiceNumber ==
    /\ unique_invoice_number = NoResult
    /\ unique_invoice_number' = <<make_unique_invoice_number(report_invoice_number, unix_time)>>
    /\ UNCHANGED <<classifierVars, durationVars, databaseVars, tursoVars, stripeVars, labelVars, antiImperialistsVars, report_invoice_number, unix_time, syncVars, reportVars, generateVars, connectionVars, monitorVars, billingVars>>

NextNumber == MakeUniqueInvoiceNumber

SpecNumber == InitNumber /\ [][NextNumber]_vars

\* C18: the Stripe invoice number, the first 19 characters of the report's
\* invoice number, a hyphen and the last 6 digits of the Unix time, is under
\* 26 characters long for every report invoice number, the generated
\* INV-YYYYMM-XXXXXXXX included.
C18_InvoiceNumberUnder26 ==
    unique_invoice_number # NoResult => Len(unique_invoice_number[1]) < 26


-----------------------------------------------------------------------------
(* SyncManager.sync_completed_tasks (sync_manager.py) over the             *)
(* completed_tasks table.  Times are in hours.                             *)

Max(S) == CHOOSE x \in S : \A y \in S : x >= y

\* Database.get_latest_sync_time: the greatest completed_at, or None.
get_latest_sync_time(rows) ==
    IF rows = <<>> THEN PyNone
    ELSE [kind |-> "datetime",
          value |-> Max({rows[i].completed_at : i \in 1..Len(rows)})]

\* Database.get_tasks_count
get_tasks_count(rows) == Len(rows)

\* TodoistClient.get_project_name, with the projects "p1" known to the API.
get_project_name(project_id) ==
    IF project_id = "" THEN "Inbox"
    ELSE IF project_id = "p1" THEN "AISC"
    ELSE "Unknown Project"

\* The since argument of get_completed_tasks.
since_of(latest_sync, lookback_days) ==
    IF latest_sync # PyNone
    THEN [kind |-> "datetime", value |-> latest_sync.value - 1]
    ELSE [kind |-> "utcnow_minus_days", value |-> lookback_days]

\* The loop with new_tasks += 1 outside the `if`.
RECURSIVE sync_loop_count_all(_, _, _)
sync_loop_count_all(rows, completed_tasks, n) ==
    IF n = 0 THEN [rows |-> rows, new_tasks |-> 0, calls |-> <<>>]
    ELSE LET p == sync_loop_count_all(rows, completed_tasks, n - 1)
             task == completed_tasks[n]
             project_name == get_project_name(task.project_id)
             r == save_task(p.rows, task, project_name)
         IN  [rows |-> r.rows,
              new_tasks |-> p.new_tasks + 1,
              calls |-> Append(p.calls, [task_data |-> task,
                                         project_name |-> project_name,
                                         ret |-> r.ret])]

\* One pass of the loop body on the state p the earlier passes left.
sync_loop_body(p, task) ==
    LET project_name == get_project_name(task.project_id)
        r == save_task(p.rows, task, project_name)
    IN  [rows |-> r.rows,
         new_tasks |-> p.new_tasks + (IF r.ret THEN 1 ELSE 0),
         calls |-> Append(p.calls, [task_data |-> task,
                                    project_name |-> project_name,
                                    ret |-> r.ret])]

\* for task in completed_tasks: ... if self.db.save_task(task, project_name):
\* new_tasks += 1 -- the state after the first n tasks.
RECURSIVE sync_loop(_, _, _)
sync_loop(rows, completed_tasks, n) ==
    IF n = 0 THEN [rows |-> rows, new_tasks |-> 0, calls |-> <<>>]
    ELSE CHOOSE after \in {sync_loop_body(p, completed_tasks[n]) :
                               p \in {sync_loop(rows, completed_tasks, n - 1)}} : TRUE

\* sync_completed_tasks: api_raises says that get_completed_tasks raised, in
\* which case the exception is re-raised and nothing has been saved.
sync_completed_tasks(rows, lookback_days, completed_tasks, api_raises) ==
    LET since == since_of(get_latest_sync_time(rows), lookback_days)
        done == sync_loop(rows, completed_tasks, Len(completed_tasks))
    IN  IF api_raises
        THEN [rows |-> rows, calls |-> <<>>, since |-> since, raised |-> TRUE,
              new_tasks |-> 0, total_tasks |-> 0]
        ELSE [rows |-> done.rows, calls |-> done.calls, since |-> since,
              raised |-> FALSE,
              new_tasks |-> done.new_tasks,
              total_tasks |-> get_tasks_count(done.rows)]

\* At most MaxSyncRuns runs.
MaxSyncRuns == 3

\* A completion event as get_completed_tasks returns it.
Event(object_id, event_date, project_id) ==
    [task_id |-> object_id, content |-> "Call union",
     completed_at |-> event_date, project_id |-> project_id]

\* What one fetch can return: nothing, one event, two events, the events of
\* an earlier fetch in another order, and two events of the same task.
FetchLists == {
    <<>>,
    <<Event("t1", 1, "")>>,
    <<Event("t1", 1, ""), Event("t2", 2, "p1")>>,
    <<Event("t2", 2, "p1"), Event("t1", 2, "")>>,
    <<Event("t1", 1, ""), Event("t1", 2, "")>>,
    <<Event("t3", 2, "p9")>>
}

LookbackDays == {7, 30}

InitSync ==
    /\ ClassifierIdle
    /\ DurationIdle
    /\ DatabaseIdle
    /\ TursoIdle
    /\ StripeIdle
    /\ BillingIdle
    /\ MonitorIdle
    /\ ConnectionIdle
    /\ GenerateIdle
    /\ ReportIdle
    /\ LabelIdle
    /\ AntiImperialistsIdle
    /\ NumberIdle
    /\ sync_runs = <<>>

SyncCompletedTasks ==
    /\ Len(sync_runs) < MaxSyncRuns
    /\ \E lookback_days \in LookbackDays, completed_tasks \in FetchLists,
          api_raises \in BOOLEAN :
        LET r == sync_completed_tasks(completed_tasks_rows, lookback_days,
                                      completed_tasks, api_raises)
        IN  /\ completed_tasks_rows' = r.rows
            /\ save_calls' = save_calls \o r.calls
            /\ sync_runs' = Append(sync_runs,
                                   [fetched |-> IF api_raises THEN <<>> ELSE completed_tasks,
                                    since |-> r.since,
                                    raised |-> r.raised,
                                    new_tasks |-> r.new_tasks,
                                    total_tasks |-> r.total_tasks,
                                    before |-> completed_tasks_rows,
                                    after |-> r.rows])
    /\ UNCHANGED <<classifierVars, durationVars, tursoVars, stripeVars, labelVars, antiImperialistsVars, numberVars, reportVars, generateVars, connectionVars, monitorVars, billingVars>>

NextSync == SyncCompletedTasks

SpecSync == InitSync /\ [][NextSync]_vars

\* C19: after any sequence of sync_completed_tasks runs the table has at most
\* one row per task_id; each run's new_tasks is the number of rows it added
\* (total_tasks after = total before + new_tasks); and a run that fetches
\* only tasks already stored returns new_tasks = 0 and changes no stored row.
C19_SyncAddsEachTaskOnce ==
    /\ \A i, j \in 1..Len(completed_tasks_rows) :
          completed_tasks_rows[i].task_id = completed_tasks_rows[j].task_id => i = j
    /\ \A k \in 1..Len(sync_runs) :
          LET run == sync_runs[k]
          IN  ~run.raised =>
                /\ run.new_tasks = Len(run.after) - Len(run.before)
                /\ run.total_tasks = Len(run.before) + run.new_tasks
                /\ SubSeq(run.after, 1, Len(run.before)) = run.before
                /\ (\A n \in 1..Len(run.fetched) :
                       task_exists(run.before, run.fetched[n].task_id))
                     => (run.new_tasks = 0 /\ run.after = run.before)

\* A second run fetches the two stored tasks again, in another order and with
\* another completion time, and adds nothing.
C19_Witness ==
    /\ Len(sync_runs) >= 2
    /\ sync_runs[1].new_tasks = 2
    /\ sync_runs[2].fetched = <<Event("t2", 2, "p1"), Event("t1", 2, "")>>
    /\ sync_runs[2].new_tasks = 0
    /\ sync_runs[2].total_tasks = 2
    /\ completed_tasks_rows[1].completed_at = 1


-----------------------------------------------------------------------------
(* Claims about the order of the Stripe calls.                             *)

CallRank(name) ==
    CASE name = "InvoiceItem.create"       -> 1
      [] name = "Invoice.create"           -> 2
      [] name = "Invoice.finalize_invoice" -> 3
      [] name = "Invoice.send_invoice"     -> 4

Called(call, name) == \E i \in 1..Len(call.api) : call.api[i] = name

Count(call, name) == Cardinality({i \in 1..Len(call.api) : call.api[i] = name})

\* The calls of one invocation are in the order InvoiceItem.create (one per
\* item, all of them before Invoice.create), Invoice.create,
\* Invoice.finalize_invoice, Invoice.send_invoice, each of the last three at
\* most once and none without the one before it.
InFixedOrder(call) ==
    /\ \A i, j \in 1..Len(call.api) :
          i < j => CallRank(call.api[i]) <= CallRank(call.api[j])
    /\ Called(call, "Invoice.create")
          => Count(call, "InvoiceItem.create") = Len(call.items)
    /\ Count(call, "Invoice.create") <= 1
    /\ Count(call, "Invoice.finalize_invoice") <= 1
    /\ Count(call, "Invoice.send_invoice") <= 1
    /\ Called(call, "Invoice.finalize_invoice") => Called(call, "Invoice.create")
    /\ Called(call, "Invoice.send_invoice") => Called(call, "Invoice.finalize_invoice")

\* No invoice at Stripe has been sent without having been finalized.
NeverSentUnfinalized ==
    \A i \in 1..Len(stripe_invoices) :
        stripe_invoices[i].sent => stripe_invoices[i].status = "open"

\* C20 as stated: the Stripe calls of create_invoice_with_link and of
\* create_detailed_invoice are made in the fixed order; send_invoice is
\* called if and only if auto_send is true; no invoice is sent without having
\* been finalized.
C20_SendIffAutoSend ==
    /\ NeverSentUnfinalized
    /\ \A k \in 1..Len(invoice_calls) :
          /\ InFixedOrder(invoice_calls[k])
          /\ Called(invoice_calls[k], "Invoice.send_invoice") <=> invoice_calls[k].auto_send

\* C20 amended: the same order; send_invoice is called if and only if
\* auto_send is true and every Stripe call before it, finalize_invoice
\* included, has returned.
C20_SendIffAutoSendAndFinalized ==
    /\ NeverSentUnfinalized
    /\ \A k \in 1..Len(invoice_calls) :
          LET call == invoice_calls[k]
              finalize_returned ==
                  /\ Called(call, "Invoice.finalize_invoice")
                  /\ call.raised_at \notin 1..(Len(call.items) + 2)
          IN  /\ InFixedOrder(call)
              /\ Called(call, "Invoice.send_invoice")
                    <=> (call.auto_send /\ finalize_returned)

\* A successful call with two items and auto_send: two InvoiceItem.create,
\* then Invoice.create, finalize_invoice and send_invoice.
C20_Witness ==
    \E k \in 1..Len(invoice_calls) :
        /\ invoice_calls[k].auto_send
        /\ invoice_calls[k].result.success
        /\ Len(invoice_calls[k].items) = 2
        /\ invoice_calls[k].api = <<"InvoiceItem.create", "InvoiceItem.create",
                                    "Invoice.create", "Invoice.finalize_invoice",
                                    "Invoice.send_invoice">>
        /\ \E i \in 1..Len(stripe_invoices) : stripe_invoices[i].sent


-----------------------------------------------------------------------------
(* The billing report: TextGenerator._format_billing_text writes it and    *)
(* BillingReportConverter.parse_billing_report reads it back.  A report is *)
(* its header counts and, per task, the lines of the task's block.         *)

\* TextGenerator.format_duration: the first label with "min" in it.
RECURSIVE format_duration(_)
format_duration(lbls) ==
    IF lbls = <<>> THEN "Time not specified"
    ELSE IF Contains(Head(lbls), "mins") \/ Contains(Head(lbls), "min") THEN Head(lbls)
    ELSE format_duration(Tail(lbls))

\* datetime.fromisoformat(completed_date.replace('Z', '+00:00'))
\*     .strftime('%m/%d/%Y') for a YYYY-MM-DDTHH:MM:SS string.
formatted_date_of(completed_date) ==
    IF completed_date # ""
    THEN SubSeq(completed_date, 6, 7) \o "/" \o SubSeq(completed_date, 9, 10)
             \o "/" \o SubSeq(completed_date, 1, 4)
    ELSE "Date not available"

\* The lines the writer appends for task number i, down to the separator.
task_block(i, task) ==
    <<str(i) \o ". " \o task.content,
      "   Duration: " \o format_duration(task.labels),
      "   Completed: " \o formatted_date_of(task.completed_at),
      "   ",
      "   Description: " \o task.enhanced_description>>

RECURSIVE total_hours_of(_)
total_hours_of(tasks) ==
    IF tasks = <<>> THEN 0
    ELSE extract_hours_from_labels(Head(tasks).labels) + total_hours_of(Tail(tasks))

\* _format_billing_text: hours in hundredths, the amount in cents.
format_billing_text(tasks, hourly_rate) ==
    [total_tasks |-> Len(tasks),
     blocks      |-> [i \in 1..Len(tasks) |-> task_block(i, tasks[i])],
     total_hours |-> total_hours_of(tasks),
     amount_due  |-> total_hours_of(tasks) * hourly_rate]

\* s begins with prefix.
StartsWith(s, prefix) ==
    Len(s) >= Len(prefix) /\ SubSeq(s, 1, Len(prefix)) = prefix

\* s ends with suffix.
EndsWith(s, suffix) ==
    Len(s) >= Len(suffix) /\ SubSeq(s, Len(s) - Len(suffix) + 1, Len(s)) = suffix

\* s[n:]
slice_from(s, n) == SubSeq(s, n + 1, Len(s))

\* s fully matches \d+ / [\d/]+.
AllDigits(s) == s # "" /\ \A i \in 1..Len(s) : IsDigit(SubSeq(s, i, i))
AllDigitsOrSlash(s) ==
    s # "" /\ \A i \in 1..Len(s) : IsDigit(SubSeq(s, i, i)) \/ SubSeq(s, i, i) = "/"

\* str.strip() of a line of the model: leading and trailing blanks removed.
RECURSIVE strip(_)
strip(s) ==
    IF s = "" THEN ""
    ELSE IF SubSeq(s, 1, 1) = " " THEN strip(slice_from(s, 1))
    ELSE IF SubSeq(s, Len(s), Len(s)) = " " THEN strip(SubSeq(s, 1, Len(s) - 1))
    ELSE s

\* The task regex on one block:
\* (\d+)\.\s+(.+?)\n\s+Duration: (\d+) mins\n\s+Completed: ([\d/]+)\n\s+\n\s+Description: (.+?)(?:\n|$)
\* <<>> when the block does not match, else the one task parsed from it.
parse_block(block) ==
    LET head == block[1]
        number == re_search_digits(head)
        after_number == slice_from(head, Len(number))
        duration_line == strip(block[2])
        duration == SubSeq(duration_line, Len("Duration: ") + 1,
                           Len(duration_line) - Len(" mins"))
        completed_line == strip(block[3])
        completed == slice_from(completed_line, Len("Completed: "))
        \* block.strip() removes the blanks that end the last line
        description_line == strip(block[5])
        description == slice_from(description_line, Len("Description: "))
    IN  IF /\ number # "" /\ StartsWith(head, number)
           /\ StartsWith(after_number, ". ")
           /\ strip(slice_from(after_number, 2)) # ""
           /\ StartsWith(duration_line, "Duration: ")
           /\ EndsWith(duration_line, " mins")
           /\ AllDigits(duration)
           /\ StartsWith(completed_line, "Completed: ")
           /\ AllDigitsOrSlash(completed)
           /\ strip(block[4]) = ""
           /\ StartsWith(description_line, "Description: ")
           /\ description # ""
        THEN <<[number |-> int(number),
                title |-> strip(slice_from(after_number, 2)),
                duration_minutes |-> int(duration),
                duration_hours |-> round_minutes_to_hours(int(duration)),
                completed_date |-> completed,
                description |-> strip(description)]>>
        ELSE <<>>

RECURSIVE parse_blocks(_, _)
parse_blocks(blocks, n) ==
    IF n = 0 THEN <<>> ELSE parse_blocks(blocks, n - 1) \o parse_block(blocks[n])

\* parse_billing_report
parse_billing_report(r) ==
    [total_tasks |-> r.total_tasks,
     total_hours |-> r.total_hours,
     amount_due  |-> r.amount_due,
     tasks       |-> parse_blocks(r.blocks, Len(r.blocks))]

\* task_amount = int(task["duration_hours"] * hourly_rate * 100), per parsed task
RECURSIVE item_amounts(_, _)
item_amounts(tasks, hourly_rate) ==
    IF tasks = <<>> THEN <<>>
    ELSE <<Head(tasks).duration_hours * hourly_rate>> \o item_amounts(Tail(tasks), hourly_rate)

\* HOURLY_RATE, in dollars.
hourly_rate_default == 40

\* Reports of at most MaxReportTasks tasks.
MaxReportTasks == 2

ReportTaskInputs ==
    [content : {"Call union"},
     labels : {<<"45 mins">>, <<"10 mins">>, <<"15 min">>, <<>>},
     completed_at : {"2026-11-05T10:00:00Z", ""},
     enhanced_description : {"Called the union about the strike.", ""}]

RECURSIVE ReportTaskLists(_)
ReportTaskLists(n) ==
    IF n = 0 THEN {<<>>}
    ELSE LET L == ReportTaskLists(n - 1)
         IN  L \cup {Append(l, x) : l \in L, x \in ReportTaskInputs}

InitReport ==
    /\ ClassifierIdle
    /\ DurationIdle
    /\ DatabaseIdle
    /\ TursoIdle
    /\ StripeIdle
    /\ BillingIdle
    /\ MonitorIdle
    /\ ConnectionIdle
    /\ GenerateIdle
    /\ LabelIdle
    /\ AntiImperialistsIdle
    /\ NumberIdle
    /\ SyncIdle
    /\ report_tasks \in ReportTaskLists(MaxReportTasks)
    /\ report = NoResult
    /\ parsed_report = NoResult

FormatBillingText ==
    /\ report = NoResult
    /\ report' = <<format_billing_text(report_tasks, hourly_rate_default)>>
    /\ UNCHANGED <<classifierVars, durationVars, databaseVars, tursoVars, stripeVars, labelVars, antiImperialistsVars, numberVars, syncVars, report_tasks, parsed_report, generateVars, connectionVars, monitorVars, billingVars>>

ParseBillingReport ==
    /\ report # NoResult
    /\ parsed_report = NoResult
    /\ parsed_report' = <<parse_billing_report(report[1])>>
    /\ UNCHANGED <<classifierVars, durationVars, databaseVars, tursoVars, stripeVars, labelVars, antiImperialistsVars, numberVars, syncVars, report_tasks, report, generateVars, connectionVars, monitorVars, billingVars>>

NextReport == FormatBillingText \/ ParseBillingReport

SpecReport == InitReport /\ [][NextReport]_vars

RECURSIVE SumOf(_)
SumOf(q) == IF q = <<>> THEN 0 ELSE Head(q) + SumOf(Tail(q))

\* C21: for every task list rendered by _format_billing_text,
\* parse_billing_report recovers one task per rendered task (as many as
\* "Total Completed Tasks"), the parsed duration_hours add up to "Total
\* hours", and the Stripe line items add up to the report's amount due.
C21_ReportRoundTrip ==
    parsed_report # NoResult =>
        LET p == parsed_report[1]
        IN  /\ Len(p.tasks) = p.total_tasks
            /\ Len(p.tasks) = Len(report_tasks)
            /\ SumOf([i \in 1..Len(p.tasks) |-> p.tasks[i].duration_hours]) = p.total_hours
            /\ SumOf(item_amounts(p.tasks, hourly_rate_default)) = p.amount_due


-----------------------------------------------------------------------------
(* generate_report (anti_imperialists.py and main.py): the completed items *)
(* become task dicts, which are sorted by completion date.  Of a task dict *)
(* the model keeps id and completed_at, the fields the sort depends on.    *)

PyDatetime(d) == [kind |-> "datetime", local |-> d.local, aware |-> d.aware, offset |-> d.offset]

\* datetime.min: a naive datetime before every timestamp of the inputs.
datetime_min == PyDatetime([local |-> -T, aware |-> FALSE, offset |-> 0])

\* anti_imperialists.py: completion_date = None; if completed_at: try:
\* completion_date = datetime.fromisoformat(completed_at.replace('Z', '+00:00'))
\* except: pass
completion_date_of(c_at) ==
    IF ~Truthy(c_at) THEN PyNone
    ELSE LET rc == replace_Z(c_at) IN
         IF rc.exc # "" THEN PyNone
         ELSE LET d == fromisoformat(rc.value) IN
              IF d.exc # "" THEN PyNone ELSE PyDatetime(d.value)

\* key=lambda x: x['completed_at'] if x['completed_at'] else datetime.min
sort_key(task) ==
    IF Truthy(task.completed_at) THEN task.completed_at ELSE datetime_min

\* The place of a str among the str keys of the inputs: timestamps begin
\* with a digit and order by their digits, then by the zone suffix; the
\* other text begins with a letter.
tz_order(tz) ==
    CASE tz = "" -> 0 [] tz = "+00:00" -> 1 [] tz = "+02:00" -> 2 [] tz = "Z" -> 3

str_order(x) ==
    IF x.kind = "iso" THEN <<0, x.local, tz_order(x.tz)>> ELSE <<1, 0, 0>>

tuple_lt(a, b) ==
    \/ a[1] < b[1]
    \/ a[1] = b[1] /\ a[2] < b[2]
    \/ a[1] = b[1] /\ a[2] = b[2] /\ a[3] < b[3]

IsStr(x) == x.kind \in {"str", "iso"}

\* a < b on two sort keys: [exc |-> "TypeError"] for a str against a
\* datetime and for a naive against an aware datetime.
key_lt(a, b) ==
    IF a.kind = "datetime" /\ b.kind = "datetime"
    THEN IF a.aware # b.aware THEN [exc |-> "TypeError"]
         ELSE [exc |-> "", value |-> (a.local - a.offset) < (b.local - b.offset)]
    ELSE IF IsStr(a) /\ IsStr(b)
    THEN [exc |-> "", value |-> tuple_lt(str_order(a), str_order(b))]
    ELSE [exc |-> "TypeError"]

\* x put into acc, sorted from the largest key down, behind every element
\* whose key is not smaller: list.sort is stable under reverse=True.
RECURSIVE insert_reverse(_, _)
insert_reverse(acc, x) ==
    IF acc = <<>> THEN <<x>>
    ELSE IF key_lt(sort_key(Head(acc)), sort_key(x)).value
         THEN <<x>> \o acc
         ELSE <<Head(acc)>> \o insert_reverse(Tail(acc), x)

RECURSIVE sorted_reverse(_, _)
sorted_reverse(tasks, n) ==
    IF n = 0 THEN <<>> ELSE insert_reverse(sorted_reverse(tasks, n - 1), tasks[n])

\* completed_analysis.sort(key=..., reverse=True).  To order the list the
\* sort has to compare across any two groups of keys, so it raises when
\* two of the keys cannot be compared.
sort_reverse(tasks) ==
    IF \E i, j \in 1..Len(tasks) : key_lt(sort_key(tasks[i]), sort_key(tasks[j])).exc # ""
    THEN [raised |-> "TypeError"]
    ELSE [raised |-> "", tasks |-> sorted_reverse(tasks, Len(tasks))]

\* anti_imperialists.py: completed_at of a task dict is the parsed date.
anti_imperialists_generate_report(items) ==
    IF items = <<>> THEN [raised |-> "", tasks |-> <<>>]
    ELSE sort_reverse([i \in 1..Len(items) |->
            [id |-> items[i].id, completed_at |-> completion_date_of(items[i].completed_at)]])

\* main.py: completed_at of a task dict is the item's own value.
main_generate_report(items) ==
    IF items = <<>> THEN [raised |-> "", tasks |-> <<>>]
    ELSE sort_reverse([i \in 1..Len(items) |->
            [id |-> items[i].id, completed_at |-> items[i].completed_at]])

\* generate_report on at most MaxItems completed items.
MaxItems == 2

CompletedAtInputs ==
    {IsoString(T, "Z"), IsoString(T + UnitsPerHour, "Z"), IsoString(T, "+02:00"),
     IsoString(T, ""), PyNone, PyStr("not a date")}

RECURSIVE CompletedItemLists(_)
CompletedItemLists(n) ==
    IF n = 0 THEN {<<>>}
    ELSE LET L == CompletedItemLists(n - 1)
         IN  L \cup {Append(l, [id |-> Len(l) + 1, completed_at |-> c]) :
                        l \in L, c \in CompletedAtInputs}

InitGenerate ==
    /\ ClassifierIdle
    /\ DurationIdle
    /\ DatabaseIdle
    /\ TursoIdle
    /\ StripeIdle
    /\ BillingIdle
    /\ MonitorIdle
    /\ ConnectionIdle
    /\ LabelIdle
    /\ AntiImperialistsIdle
    /\ NumberIdle
    /\ SyncIdle
    /\ ReportIdle
    /\ completed_items \in CompletedItemLists(MaxItems)
    /\ completed_analysis = NoResult

AntiImperialistsGenerateReport ==
    /\ completed_analysis = NoResult
    /\ completed_analysis' = <<[module |-> "anti_imperialists"] @@ anti_imperialists_generate_report(completed_items)>>
    /\ UNCHANGED <<classifierVars, durationVars, databaseVars, tursoVars, stripeVars, labelVars, antiImperialistsVars, numberVars, syncVars, reportVars, completed_items, connectionVars, monitorVars, billingVars>>

MainGenerateReport ==
    /\ completed_analysis = NoResult
    /\ completed_analysis' = <<[module |-> "main"] @@ main_generate_report(completed_items)>>
    /\ UNCHANGED <<classifierVars, durationVars, databaseVars, tursoVars, stripeVars, labelVars, antiImperialistsVars, numberVars, syncVars, reportVars, completed_items, connectionVars, monitorVars, billingVars>>

NextGenerate == AntiImperialistsGenerateReport \/ MainGenerateReport

SpecGenerate == InitGenerate /\ [][NextGenerate]_vars

\* The completion date of the item a returned task was made from.
DateOfTask(task) == completion_date_of(completed_items[task.id].completed_at)
Dated(task) == DateOfTask(task) # PyNone
CompletionInstant(task) == DateOfTask(task).local - DateOfTask(task).offset

\* C22: generate_report returns the completed tasks sorted by completion
\* date, most recent first, with the undated tasks last, for any mix of
\* dated and undated items, and does not raise.
C22_SortedMostRecentFirst ==
    completed_analysis # NoResult =>
        LET r == completed_analysis[1]
        IN  /\ r.raised = ""
            /\ Len(r.tasks) = Len(completed_items)
            /\ \A i, j \in 1..Len(r.tasks) :
                  i < j => /\ Dated(r.tasks[j]) => Dated(r.tasks[i])
                           /\ (Dated(r.tasks[i]) /\ Dated(r.tasks[j]))
                                  => CompletionInstant(r.tasks[i]) >= CompletionInstant(r.tasks[j])


-----------------------------------------------------------------------------
(* TursoConnection (turso_db/connection.py): the connection attribute and  *)
(* the statements sent through it.  libsql.connect and cursor.execute are  *)
(* the library's: each either returns or raises.                           *)

\* connect(): [connection, ret].
connect(conn, available, connect_raises) ==
    IF ~available THEN [connection |-> conn, ret |-> FALSE]
    ELSE IF connect_raises THEN [connection |-> conn, ret |-> FALSE]
    ELSE [connection |-> "libsql", ret |-> TRUE]

\* The guard of execute_query / execute_command written without the call
\* of connect(): the statement goes to whatever self.connection is.
execute_without_connect(conn, available, connect_raises, execute_raises, ok, failed) ==
    [connection |-> conn, connect_called |-> FALSE, connect_ret |-> FALSE,
     executed |-> TRUE, held |-> conn # "None",
     ret |-> IF execute_raises \/ conn = "None" THEN failed ELSE ok]

\* execute_query / execute_command: `if not self.connection: if not
\* self.connect(): return <failed>`, then the statement inside try/except.
\* held is self.connection at cursor.execute.
execute(conn, available, connect_raises, execute_raises, ok, failed) ==
    LET c == connect(conn, available, connect_raises)
    IN  IF conn = "None" /\ ~c.ret
        THEN [connection |-> c.connection, connect_called |-> TRUE, connect_ret |-> FALSE,
              executed |-> FALSE, held |-> FALSE, ret |-> failed]
        ELSE LET now == IF conn = "None" THEN c.connection ELSE conn
             IN  [connection |-> now, connect_called |-> conn = "None",
                  connect_ret |-> conn = "None",
                  executed |-> TRUE, held |-> now # "None",
                  ret |-> IF execute_raises THEN failed ELSE ok]

execute_query(conn, available, connect_raises, execute_raises) ==
    execute(conn, available, connect_raises, execute_raises, "rows", "None")

execute_command(conn, available, connect_raises, execute_raises) ==
    execute(conn, available, connect_raises, execute_raises, "True", "False")

\* close(): if self.connection: self.connection.close(); self.connection = None
close(conn) == "None"

\* At most MaxConnectionCalls method calls on one TursoConnection.
MaxConnectionCalls == 4

InitConnection ==
    /\ ClassifierIdle
    /\ DurationIdle
    /\ DatabaseIdle
    /\ TursoIdle
    /\ StripeIdle
    /\ BillingIdle
    /\ MonitorIdle
    /\ LabelIdle
    /\ AntiImperialistsIdle
    /\ NumberIdle
    /\ SyncIdle
    /\ ReportIdle
    /\ GenerateIdle
    /\ libsql_available \in BOOLEAN
    /\ connection = "None"
    /\ connection_calls = <<>>

Connect ==
    /\ Len(connection_calls) < MaxConnectionCalls
    /\ \E connect_raises \in BOOLEAN :
        LET r == connect(connection, libsql_available, connect_raises)
        IN  /\ connection' = r.connection
            /\ connection_calls' = Append(connection_calls,
                   [method |-> "connect", before |-> connection, after |-> r.connection,
                    connect_called |-> TRUE, connect_ret |-> r.ret, executed |-> FALSE,
                    held |-> FALSE, ret |-> IF r.ret THEN "True" ELSE "False", raised |-> ""])
    /\ UNCHANGED <<classifierVars, durationVars, databaseVars, tursoVars, stripeVars, labelVars, antiImperialistsVars, numberVars, syncVars, reportVars, generateVars, libsql_available, monitorVars, billingVars>>

ExecuteQuery ==
    /\ Len(connection_calls) < MaxConnectionCalls
    /\ \E connect_raises \in BOOLEAN, execute_raises \in BOOLEAN :
        LET r == execute_query(connection, libsql_available, connect_raises, execute_raises)
        IN  /\ connection' = r.connection
            /\ connection_calls' = Append(connection_calls,
                   [method |-> "execute_query", before |-> connection, after |-> r.connection,
                    connect_called |-> r.connect_called, connect_ret |-> r.connect_ret,
                    executed |-> r.executed, held |-> r.held, ret |-> r.ret, raised |-> ""])
    /\ UNCHANGED <<classifierVars, durationVars, databaseVars, tursoVars, stripeVars, labelVars, antiImperialistsVars, numberVars, syncVars, reportVars, generateVars, libsql_available, monitorVars, billingVars>>

ExecuteCommand ==
    /\ Len(connection_calls) < MaxConnectionCalls
    /\ \E connect_raises \in BOOLEAN, execute_raises \in BOOLEAN :
        LET r == execute_command(connection, libsql_available, connect_raises, execute_raises)
        IN  /\ connection' = r.connection
            /\ connection_calls' = Append(connection_calls,
                   [method |-> "execute_command", before |-> connection, after |-> r.connection,
                    connect_called |-> r.connect_called, connect_ret |-> r.connect_ret,
                    executed |-> r.executed, held |-> r.held, ret |-> r.ret, raised |-> ""])
    /\ UNCHANGED <<classifierVars, durationVars, databaseVars, tursoVars, stripeVars, labelVars, antiImperialistsVars, numberVars, syncVars, reportVars, generateVars, libsql_available, monitorVars, billingVars>>

Close ==
    /\ Len(connection_calls) < MaxConnectionCalls
    /\ connection' = close(connection)
    /\ connection_calls' = Append(connection_calls,
           [method |-> "close", before |-> connection, after |-> close(connection),
            connect_called |-> FALSE, connect_ret |-> FALSE, executed |-> FALSE,
            held |-> FALSE, ret |-> "None", raised |-> ""])
    /\ UNCHANGED <<classifierVars, durationVars, databaseVars, tursoVars, stripeVars, labelVars, antiImperialistsVars, numberVars, syncVars, reportVars, generateVars, libsql_available, monitorVars, billingVars>>

NextConnection == Connect \/ ExecuteQuery \/ ExecuteCommand \/ Close

SpecConnection == InitConnection /\ [][NextConnection]_vars

IsExecute(call) == call.method \in {"execute_query", "execute_command"}

FailedReturn(call) ==
    IF call.method = "execute_query" THEN "None" ELSE "False"

\* C23: a statement is executed only while a connection is held.  An
\* execute_query / execute_command that finds no connection calls connect()
\* first; when connect fails it returns None / False without executing and
\* without raising.  After close() the connection is None, and a later
\* execute_* connects again before it executes.
C23_ExecuteOnlyConnected ==
    \A k \in 1..Len(connection_calls) :
        LET call == connection_calls[k]
        IN  /\ call.executed => call.held
            /\ (IsExecute(call) /\ call.before = "None") =>
                  /\ call.connect_called
                  /\ call.raised = ""
                  /\ call.connect_ret => call.executed /\ call.after # "None"
                  /\ ~call.connect_ret => ~call.executed /\ call.ret = FailedReturn(call)
            /\ call.method = "close" => call.after = "None"
            /\ (k > 1 /\ connection_calls[k - 1].method = "close" /\ IsExecute(call)) =>
                  /\ call.before = "None"
                  /\ call.connect_called
                  /\ call.executed => call.connect_ret

\* A connection was closed and the next execute_command connected again and
\* executed; an execute_query found no connection and could not connect.
C23_Witness ==
    /\ \E k \in 2..Len(connection_calls) :
          /\ connection_calls[k - 1].method = "close"
          /\ connection_calls[k - 1].before # "None"
          /\ connection_calls[k].method = "execute_command"
          /\ connection_calls[k].executed
    /\ \E k \in 1..Len(connection_calls) :
          /\ connection_calls[k].method = "execute_query"
          /\ connection_calls[k].before = "None"
          /\ ~connection_calls[k].connect_ret
          /\ connection_calls[k].ret = "None"


-----------------------------------------------------------------------------
(* enhance_description of both files on titles that meet the task-type     *)
(* keywords without a category keyword and the Digital Organizing focus    *)
(* keywords.                                                               *)

CrossFragments == {
    "mutual aid ", "solidarity ", "coalition ", "website ", "online ",
    "digital ", "substack ", "social media ", "meeting ", "Gaza ", "notes "
}

CrossTitles == TitlesUpTo(CrossFragments, MaxFrags)

InitCross ==
    /\ DurationIdle
    /\ DatabaseIdle
    /\ TursoIdle
    /\ StripeIdle
    /\ BillingIdle
    /\ MonitorIdle
    /\ LabelIdle
    /\ NumberIdle
    /\ SyncIdle
    /\ ReportIdle
    /\ GenerateIdle
    /\ ConnectionIdle
    /\ title \in CrossTitles
    /\ labels \in LabelInputs
    /\ cls = NoResult
    /\ category_arg = ""
    /\ est = NoResult
    /\ anti_imperialists_cls = NoResult

SpecCross == InitCross /\ [][NextBoth]_vars

OtherTaskTypes ==
    {"General Organizing", "Community Support", "Solidarity Work", "Alliance Building"}

\* keyword contains a keyword of some category of the table.
HasCategoryKeyword(keyword, table) ==
    \E i \in 1..Len(table) : \E j \in 1..Len(table[i].keywords) :
        Contains(keyword, table[i].keywords[j])

\* Every task-type keyword outside OtherTaskTypes, and every Digital
\* Organizing focus keyword, contains a category keyword.
KeywordsCovered(categories, task_types, focuses) ==
    /\ \A i \in 1..Len(task_types) :
          task_types[i].name \notin OtherTaskTypes =>
              \A j \in 1..Len(task_types[i].keywords) :
                  HasCategoryKeyword(task_types[i].keywords[j], categories)
    /\ \A i \in 1..Len(focuses) :
          focuses[i].name = "Digital Organizing" =>
              \A j \in 1..Len(focuses[i].keywords) :
                  HasCategoryKeyword(focuses[i].keywords[j], categories)

OtherImplies(r) ==
    r.category = "Other" =>
        /\ r.task_type \in OtherTaskTypes
        /\ r.focus_area # "Digital Organizing"

\* C24: in the dict returned by enhance_description (main.py and
\* anti_imperialists.py), a category of 'Other' comes with a task_type of
\* 'General Organizing', 'Community Support', 'Solidarity Work' or
\* 'Alliance Building' and never with the focus_area 'Digital Organizing':
\* every other task-type keyword and every Digital Organizing focus keyword
\* contains a category keyword.
C24_OtherCategoryTaskTypes ==
    /\ cls # NoResult =>
          /\ OtherImplies(cls[1])
          /\ KeywordsCovered(category_keywords, task_type_map, focus_keywords)
    /\ anti_imperialists_cls # NoResult =>
          /\ OtherImplies(anti_imperialists_cls[1])
          /\ KeywordsCovered(anti_imperialists_category_keywords,
                             anti_imperialists_task_type_map,
                             anti_imperialists_focus_keywords)

\* 'Other' with a task type given by a keyword, in both files.
C24_Witness ==
    /\ cls # NoResult /\ anti_imperialists_cls # NoResult
    /\ title = "coalition solidarity "
    /\ cls[1].category = "Other"
    /\ cls[1].task_type = "Solidarity Work"
    /\ anti_imperialists_cls[1].category = "Other"
    /\ anti_imperialists_cls[1].task_type = "Solidarity Work"


\* C25: every value that calculate_actual_duration returns other than None
\* lies strictly between 0 and 720 hours: an actual duration that is
\* present is never 0.0 and never the 30-day cap, also after rounding to
\* one decimal.
C25_ValueStrictlyInsideBounds ==
    (actual # NoResult /\ actual[1].value.kind = "float") =>
        /\ 0 < actual[1].value.tenths
        /\ actual[1].value.tenths < 24 * 30 * 10


-----------------------------------------------------------------------------
(* The scheduled sync (monitor.py: schedule ... .do(run_sync) and the loop *)
(* around schedule.run_pending()): run after run of sync_completed_tasks   *)
(* against an activity log that holds twice as many completions inside the *)
(* lookback window as one get_activity call returns.  Times are hours.     *)

\* The limit argument of the get_activity call (100 in the code), scaled
\* down together with the number of completions in the window.
limit == 4

\* lookback_days=30 of run_sync.
run_sync_lookback_days == 30

\* datetime.utcnow() at the first run.
utcnow == 24 * run_sync_lookback_days

\* The completions of the activity log: two in every hour from hour 1 on.
WindowCompletions ==
    {Event(str(i), (i + 1) \div 2, "") : i \in 1..(2 * limit)}

\* The instant a since argument stands for.
since_hour(since) ==
    IF since.kind = "datetime" THEN since.value
    ELSE utcnow - 24 * since.value

\* The events of the log that get_activity(since=since) selects from.
events_since(since) ==
    {e \in WindowCompletions : e.completed_at >= since_hour(since)}

\* What get_activity can return for since: all the selected events, or, of
\* more than limit events, any limit of them (which ones is the API's
\* order).
activity_events(since) ==
    LET selected == events_since(since)
    IN  IF Cardinality(selected) <= limit THEN {selected}
        ELSE {returned \in SUBSET selected : Cardinality(returned) = limit}

\* e comes before f in a response: by time, then by id.
EventBefore(e, f) ==
    \/ e.completed_at < f.completed_at
    \/ e.completed_at = f.completed_at /\ int(e.task_id) < int(f.task_id)

\* The events of a response as the list the loop iterates over, oldest
\* first; the loop saves every event whatever the order.
events_list(S) ==
    [i \in 1..Cardinality(S) |->
        CHOOSE e \in S : Cardinality({f \in S : EventBefore(f, e)}) = i - 1]

InitSchedule ==
    /\ ClassifierIdle
    /\ DurationIdle
    /\ DatabaseIdle
    /\ TursoIdle
    /\ StripeIdle
    /\ BillingIdle
    /\ MonitorIdle
    /\ ConnectionIdle
    /\ GenerateIdle
    /\ ReportIdle
    /\ LabelIdle
    /\ AntiImperialistsIdle
    /\ NumberIdle
    /\ SyncIdle

\* One run of run_sync with the API responding: the table after
\* sync_completed_tasks(lookback_days=30).
ScheduledSync ==
    /\ \E events \in activity_events(since_of(get_latest_sync_time(completed_tasks_rows),
                                               run_sync_lookback_days)) :
          \E completed_tasks \in {events_list(events)} :
              \E result \in {sync_completed_tasks(completed_tasks_rows, run_sync_lookback_days,
                                                   completed_tasks, FALSE)} :
                  completed_tasks_rows' = result.rows
    /\ UNCHANGED <<classifierVars, durationVars, save_calls, tursoVars, stripeVars, labelVars, antiImperialistsVars, numberVars, syncVars, reportVars, generateVars, connectionVars, monitorVars, billingVars>>

NextSchedule == ScheduledSync

\* The loop runs the pending job every pass: a run that can change the
\* table is eventually made.
SpecSchedule == InitSchedule /\ [][NextSchedule]_vars /\ WF_vars(ScheduledSync)

Stored(e) == task_exists(completed_tasks_rows, e.task_id)

\* C26: under repeated sync runs, each run eventually executing and the
\* API responding, every completion inside the initial lookback window is
\* eventually stored in the database, however many completions the window
\* holds and whichever of them the API returns first.
C26_EveryCompletionEventuallyStored ==
    <>(\A e \in WindowCompletions : Stored(e))


-----------------------------------------------------------------------------
(* monitor.run_sync as the scheduling loop of monitor.main calls it: a     *)
(* SyncManager is built (its Database opens a session), the sync runs, and *)
(* manager.close() closes the session.                                     *)

\* run_sync: the table and the open sessions when it returns.  token says
\* TODOIST_API_TOKEN is set, init_raises that SyncManager(...) raised,
\* api_raises that sync_completed_tasks raised.  raised is the exception
\* that leaves run_sync ("" for none).
run_sync(rows, sessions, token, init_raises, completed_tasks, api_raises) ==
    IF ~token
    THEN [rows |-> rows, calls |-> <<>>, open_sessions |-> sessions,
          outcome |-> "no token", closed |-> FALSE, raised |-> ""]
    ELSE IF init_raises
    THEN [rows |-> rows, calls |-> <<>>, open_sessions |-> sessions,
          outcome |-> "sync failed", closed |-> FALSE, raised |-> ""]
    ELSE LET result == sync_completed_tasks(rows, run_sync_lookback_days,
                                            completed_tasks, api_raises)
         IN  IF result.raised
             \* except Exception as e: logger.error(...) -- close() was skipped
             THEN [rows |-> result.rows, calls |-> result.calls,
                   open_sessions |-> sessions + 1,
                   outcome |-> "sync failed", closed |-> FALSE, raised |-> ""]
             ELSE [rows |-> result.rows, calls |-> result.calls,
                   open_sessions |-> (sessions + 1) - 1,
                   outcome |-> "sync successful", closed |-> TRUE, raised |-> ""]

\* At most MaxMonitorRuns scheduled runs.
MaxMonitorRuns == 3

InitMonitor ==
    /\ ClassifierIdle
    /\ DurationIdle
    /\ DatabaseIdle
    /\ TursoIdle
    /\ StripeIdle
    /\ BillingIdle
    /\ ConnectionIdle
    /\ GenerateIdle
    /\ ReportIdle
    /\ LabelIdle
    /\ AntiImperialistsIdle
    /\ NumberIdle
    /\ SyncIdle
    /\ open_sessions = 0
    /\ monitor_runs = <<>>

RunSync ==
    /\ Len(monitor_runs) < MaxMonitorRuns
    /\ \E token \in BOOLEAN, init_raises \in BOOLEAN, completed_tasks \in FetchLists,
          api_raises \in BOOLEAN :
        \E r \in {run_sync(completed_tasks_rows, open_sessions, token, init_raises,
                           completed_tasks, api_raises)} :
            /\ completed_tasks_rows' = r.rows
            /\ save_calls' = save_calls \o r.calls
            /\ open_sessions' = r.open_sessions
            /\ monitor_runs' = Append(monitor_runs,
                   [outcome |-> r.outcome, closed |-> r.closed, raised |-> r.raised,
                    opened |-> token /\ ~init_raises,
                    open_sessions |-> r.open_sessions])
    /\ UNCHANGED <<classifierVars, durationVars, tursoVars, stripeVars, labelVars, antiImperialistsVars, numberVars, syncVars, reportVars, generateVars, connectionVars, billingVars>>

NextMonitor == RunSync

SpecMonitor == InitMonitor /\ [][NextMonitor]_vars

\* C27: every SyncManager (and its database session) that run_sync opened
\* is closed when run_sync returns, after a successful sync and after a
\* sync that raised, so the open sessions do not grow from run to run; and
\* no failed sync lets an exception out of run_sync into the scheduling
\* loop.
C27_SessionsClosedAfterRun ==
    /\ open_sessions = 0
    /\ \A k \in 1..Len(monitor_runs) :
          /\ monitor_runs[k].opened => monitor_runs[k].closed
          /\ monitor_runs[k].raised = ""


-----------------------------------------------------------------------------
(* example_pdf.main: generate_billing_text and then generate_billing_pdf   *)
(* on the same JSON file.  Each generator draws its own invoice number     *)
(* (uuid4), uploads the tasks under it and writes its report.              *)

\* The part both generators share: [rows, uploaded, invoice_number,
\* returned].  process_raises says process_tasks or the writing raised (the
\* except clause returns None), db_ready that init_database succeeded.
generate_billing(rows, tasks, invoice_number, process_raises, db_ready, done, uploads_before, output_file, empty_ret) ==
    IF tasks = <<>>
    THEN [rows |-> rows, uploaded |-> FALSE, invoice_number |-> "", returned |-> empty_ret]
    ELSE IF process_raises
    THEN [rows |-> rows, uploaded |-> FALSE, invoice_number |-> invoice_number, returned |-> "None"]
    ELSE [rows |-> IF db_ready
                   THEN upload_tasks_to_db(rows, tasks, invoice_number,
                                           billing_date_at(uploads_before + 1),
                                           billing_period_at(uploads_before + 1), done).rows
                   ELSE rows,
          uploaded |-> db_ready,
          invoice_number |-> invoice_number,
          returned |-> output_file]

generate_billing_text(rows, tasks, invoice_number, process_raises, db_ready, done, uploads_before) ==
    generate_billing(rows, tasks, invoice_number, process_raises, db_ready, done,
                     uploads_before, "billing_report.txt",
                     "No completed tasks found for billing.")

\* generate_billing_pdf returns None at once without reportlab.
generate_billing_pdf(rows, tasks, invoice_number, process_raises, db_ready, done, uploads_before, available) ==
    IF ~available
    THEN [rows |-> rows, uploaded |-> FALSE, invoice_number |-> "", returned |-> "None"]
    ELSE generate_billing(rows, tasks, invoice_number, process_raises, db_ready, done,
                          uploads_before, "billing_report.pdf", "None")

JsonTaskLists == BillingTasks \cup {<<>>}

InitBilling ==
    /\ ClassifierIdle
    /\ DurationIdle
    /\ DatabaseIdle
    /\ TursoIdle
    /\ StripeIdle
    /\ ConnectionIdle
    /\ GenerateIdle
    /\ ReportIdle
    /\ LabelIdle
    /\ AntiImperialistsIdle
    /\ NumberIdle
    /\ SyncIdle
    /\ MonitorIdle
    /\ json_tasks \in JsonTaskLists
    /\ pdf_available \in BOOLEAN
    /\ billing_reports = <<>>

GenerateBillingText ==
    /\ Len(billing_reports) = 0
    /\ \E invoice_number \in InvoiceNumbers, process_raises \in BOOLEAN,
          db_ready \in BOOLEAN, done \in 0..Len(json_tasks) :
        \E r \in {generate_billing_text(tasks_rows, json_tasks, invoice_number,
                                        process_raises, db_ready, done, uploads)} :
            /\ tasks_rows' = r.rows
            /\ uploads' = IF r.uploaded THEN uploads + 1 ELSE uploads
            /\ billing_reports' = Append(billing_reports,
                   [generator |-> "text", invoice_number |-> r.invoice_number,
                    uploaded |-> r.uploaded, returned |-> r.returned])
    /\ UNCHANGED <<classifierVars, durationVars, databaseVars, stripeVars, labelVars, antiImperialistsVars, numberVars, syncVars, reportVars, generateVars, connectionVars, monitorVars, json_tasks, pdf_available>>

GenerateBillingPdf ==
    /\ Len(billing_reports) = 1
    /\ \E invoice_number \in InvoiceNumbers, process_raises \in BOOLEAN,
          db_ready \in BOOLEAN, done \in 0..Len(json_tasks) :
        \E r \in {generate_billing_pdf(tasks_rows, json_tasks, invoice_number,
                                       process_raises, db_ready, done, uploads,
                                       pdf_available)} :
            /\ tasks_rows' = r.rows
            /\ uploads' = IF r.uploaded THEN uploads + 1 ELSE uploads
            /\ billing_reports' = Append(billing_reports,
                   [generator |-> "pdf", invoice_number |-> r.invoice_number,
                    uploaded |-> r.uploaded, returned |-> r.returned])
    /\ UNCHANGED <<classifierVars, durationVars, databaseVars, stripeVars, labelVars, antiImperialistsVars, numberVars, syncVars, reportVars, generateVars, connectionVars, monitorVars, json_tasks, pdf_available>>

NextBilling == GenerateBillingText \/ GenerateBillingPdf

SpecBilling == InitBilling /\ [][NextBilling]_vars

\* C28: after generate_billing_text and then generate_billing_pdf have run
\* on the same JSON file, the invoice_number stored with each task in the
\* tasks table is the invoice number printed in the text report.
C28_StoredNumberIsTextReportNumber ==
    (/\ Len(billing_reports) = 2
     /\ billing_reports[1].returned = "billing_report.txt")
        => \A row \in tasks_rows :
               row.invoice_number = billing_reports[1].invoice_number

=============================================================================
